---- MODULE Spec2Model ----
(***************************************************************************)
(* pgql: the SQL compiler of src/src/index.ts (whereSQL, makeQuery,        *)
(* makeMutationCreate, makeMutationUpdate, makeMutationDelete,             *)
(* getPagesQuery) and the READ resolver that drives it.                    *)
(*                                                                         *)
(* SQL text is a sequence of tokens; a template literal of the source      *)
(* becomes the concatenation of the tokens of its parts, Array.join        *)
(* becomes Join and the truthiness of a string becomes "non-empty".        *)
(***************************************************************************)
EXTENDS Integers, Sequences, FiniteSets, TLC

(***************************************************************************)
(* Bounds of the explored inputs.                                          *)
(***************************************************************************)
\* weight of a filter: one per column entry (leaf), one per nested list
MaxSize == 3
\* weight of the filters of the calls that take other inputs with the filter
MaxSizeWith == 2
\* nesting depth of AND/OR lists below the top-level lists
MaxDepth == 1
\* number of value rows handed to makeMutationCreate
MaxRows == 2
\* largest row count the database reports for the count statement
MaxTotal == 5

(***************************************************************************)
(* JavaScript values.                                                      *)
(***************************************************************************)
Undefined == [t |-> "undefined"]
Null == [t |-> "null"]
Str(s) == [t |-> "string", s |-> s]
Num(n) == [t |-> "number", n |-> n]
Arr(a) == [t |-> "array", a |-> a]
\* an object is the sequence of its own <<key, value>> pairs, in key order
Obj(kv) == [t |-> "object", kv |-> kv]

\* String(v)
String(v) ==
    CASE v.t = "string" -> v
      [] v.t = "number" -> Str(ToString(v.n))
      [] v.t = "null" -> Str("null")
      [] v.t = "undefined" -> Str("undefined")
      [] OTHER -> Str("[object Object]")

\* Boolean(v): the truthiness of a value
Boolean(v) ==
    CASE v.t = "string" -> v.s # ""
      [] v.t = "number" -> v.n # 0
      [] v.t = "null" -> FALSE
      [] v.t = "undefined" -> FALSE
      [] OTHER -> TRUE

\* Array.isArray(v)
IsArray(v) == v.t = "array"

\* obj[key]
Get(obj, key) ==
    IF \E i \in 1..Len(obj.kv) : obj.kv[i][1] = key
    THEN obj.kv[CHOOSE i \in 1..Len(obj.kv) : obj.kv[i][1] = key][2]
    ELSE Undefined

\* v ?? null
OrNull(v) == IF v.t \in {"undefined", "null"} THEN Null ELSE v

(***************************************************************************)
(* Sequences.                                                              *)
(***************************************************************************)
Range(s) == {s[i] : i \in 1..Len(s)}

RECURSIVE Flat(_)
\* the concatenation of a sequence of sequences
Flat(ss) == IF ss = <<>> THEN <<>> ELSE Head(ss) \o Flat(Tail(ss))

RECURSIVE Join(_, _)
\* Array.prototype.join on pieces of text: the separator stands between
\* every two elements, empty elements included
Join(parts, sep) ==
    IF parts = <<>> THEN <<>>
    ELSE IF Len(parts) = 1 THEN parts[1]
    ELSE parts[1] \o sep \o Join(Tail(parts), sep)

\* Array.prototype.filter(Boolean) on pieces of text: drops the empty ones
Truthy(parts) == SelectSeq(parts, LAMBDA p : p # <<>>)

\* the injective sequences of length k over the set S
Perms(S, k) == {s \in [1..k -> S] : \A i, j \in 1..k : i # j => s[i] # s[j]}

(***************************************************************************)
(* SQL text.                                                               *)
(***************************************************************************)
Kw(s) == [k |-> "kw", s |-> s, op |-> "", ph |-> <<>>, cast |-> ""]
\* a raw fragment of a defaultWhere
Raw(s) == [k |-> "raw", s |-> s, op |-> "", ph |-> <<>>, cast |-> ""]
\* the token $<name> of a defaultWhere
VarTok(name) == [k |-> "var", s |-> name, op |-> "", ph |-> <<>>, cast |-> ""]
\* $<i> or $<i>::<cast>
Ph(i, cast) == [k |-> "ph", s |-> "", op |-> "", ph |-> <<i>>, cast |-> cast]
\* a bare number
NumTok(i) == [k |-> "num", s |-> ToString(i), op |-> "", ph |-> <<>>, cast |-> ""]
\* an identifier
Ident(s) == [k |-> "id", s |-> s, op |-> "", ph |-> <<>>, cast |-> ""]
\* <column> <operator>, <column> <operator> $i::<type> or
\* <column> <operator> ($i::<type>, ...): form is "none", "scalar" or "list"
Cond(name, op, form, ph, type) ==
    [k |-> "cond", s |-> name, op |-> op, ph |-> ph, cast |-> type, form |-> form]

\* the $n placeholders of a text, in text order
RECURSIVE Placeholders(_)
Placeholders(text) ==
    IF text = <<>> THEN <<>> ELSE Head(text).ph \o Placeholders(Tail(text))

(***************************************************************************)
(* The Table model (Schema, Table, Column, Variable).                      *)
(***************************************************************************)
Column(name, type, nullable) == [name |-> name, type |-> type, nullable |-> nullable]
Variable(name, type, nullable) == [name |-> name, type |-> type, nullable |-> nullable]

\* an optional array: absent (undefined) or present with its elements
Absent == [has |-> FALSE, list |-> <<>>]
Present(l) == [has |-> TRUE, list |-> l]

\* a Table; an undefined defaultWhere is the empty text (both are falsy)
Table(name, columns, variables, defaultWhere, cols) ==
    [name |-> name, columns |-> columns, variables |-> variables,
     defaultWhere |-> defaultWhere, cols |-> cols]

UsersColumns ==
    << Column("id", "int4", FALSE), Column("name", "text", FALSE), Column("email", "text", TRUE) >>

\* the tables the statements are compiled for
Tables ==
    { Table("users", UsersColumns, Absent, <<>>, Absent),
      Table("users", UsersColumns, Absent, <<>>, Present(<<"name">>)),
      Table("users", UsersColumns, Absent, << Raw("id IS NOT NULL") >>, Present(<<"id", "name", "email">>)),
      Table("users", UsersColumns, Present(<< Variable("uid", "int", FALSE) >>),
            << Raw("owner ="), VarTok("uid") >>, Absent),
      Table("users", UsersColumns,
            Present(<< Variable("uid", "int", FALSE), Variable("org", "string", TRUE) >>),
            << Raw("owner ="), VarTok("uid"), Raw("AND org ="), VarTok("org"),
               Raw("OR editor ="), VarTok("uid") >>, Absent) }

SchemaName == "website"

(***************************************************************************)
(* Condition trees (WhereType, ANDType, ORType).                           *)
(***************************************************************************)
\* { condition, value }
Condition(condition, value) == [condition |-> condition, value |-> value]
\* one column entry of an object of an AND/OR list: <col>: { SINGLE?, ARRAY? }
Leaf(col, single, array) == [col |-> col, SINGLE |-> single, ARRAY |-> array]
\* one object of an AND/OR list: its column entries in key order and its
\* AND/OR entries in key order
Node(leaves, subs) == [leaves |-> leaves, subs |-> subs]
Sub(key, list) == [key |-> key, list |-> list]
Where(and, or) == [AND |-> and, OR |-> or]

\* the column entries the filters are built from
LeafChoices ==
    { Leaf("name", Condition("EQUAL", Str("Ana")), Undefined),
      Leaf("email", Undefined, Condition("IN", Arr(<< Str("x"), Str("y") >>))),
      Leaf("ghost", Condition("EQUAL", Num(5)), Undefined) }

\* the sequences of k column entries under distinct keys
LeafSeqs(k) == {s \in Perms(LeafChoices, k) : \A i, j \in 1..k : i # j => s[i].col # s[j].col}

RECURSIVE NodesW(_, _)
RECURSIVE ListsW(_, _)
\* the AND/OR entries of weight r of an object, lists nested at most d deep;
\* a nested list weighs one more than the objects it holds
SubsW(d, r) ==
    { << Sub(key, l) >> : key \in {"AND", "OR"}, l \in ListsW(d, r - 1) }
    \cup UNION { { << Sub(ks[1], l1), Sub(ks[2], l2) >> :
                     ks \in {<<"AND", "OR">>, <<"OR", "AND">>},
                     l1 \in ListsW(d, r1 - 1), l2 \in ListsW(d, r - r1 - 1) } : r1 \in 2..(r - 2) }

\* the objects of weight n >= 1: one per column entry, own or nested
NodesW(d, n) ==
    UNION { { Node(ls, subs) : ls \in LeafSeqs(k),
                subs \in IF n - k = 0 THEN {<<>>}
                         ELSE IF d = 0 \/ n - k < 2 THEN {} ELSE SubsW(d - 1, n - k) } :
            k \in 0..n }

\* the non-empty lists of weight n >= 1
ListsW(d, n) ==
    UNION { { <<x>> \o rest : x \in NodesW(d, k),
                rest \in IF n - k = 0 THEN {<<>>} ELSE ListsW(d, n - k) } :
            k \in 1..n }

\* an optional list of weight n; a list of weight 0 is empty
OptListsW(n) ==
    IF n = 0 THEN {Absent, Present(<<>>)} ELSE {Present(l) : l \in ListsW(MaxDepth, n)}

\* the filters of weight n
WheresW(n) ==
    UNION { { Where(a, o) : a \in OptListsW(n1), o \in OptListsW(n - n1) } : n1 \in 0..n }

\* the filters handed to makeMutationDelete
Wheres == UNION { WheresW(n) : n \in 0..MaxSize }
\* the filters handed to makeQuery and makeMutationUpdate
WheresWith == UNION { WheresW(n) : n \in 0..MaxSizeWith }

(***************************************************************************)
(* whereSQL.                                                               *)
(***************************************************************************)
nullableOperators == {"IS_NULL", "IS_NOT_NULL"}

operators ==
    "EQUAL" :> "=" @@ "NOT_EQUAL" :> "<>" @@ "LESS_THAN" :> "<" @@ "LESS_THAN_OR_EQUAL" :> "<=" @@
    "GREATER_THAN" :> ">" @@ "GREATER_THAN_OR_EQUAL" :> ">=" @@ "LIKE" :> "LIKE" @@
    "ILIKE" :> "ILIKE" @@ "NOT_LIKE" :> "NOT LIKE" @@ "NOT_ILIKE" :> "NOT ILIKE" @@
    "BETWEEN" :> "BETWEEN" @@ "NOT_BETWEEN" :> "NOT BETWEEN" @@ "IN" :> "IN" @@
    "NOT_IN" :> "NOT IN" @@ "IS_NULL" :> "IS NULL" @@ "IS_NOT_NULL" :> "IS NOT NULL"

\* table.columns.find(c => c.name == k): the index of the column, 0 if none
FindColumn(table, k) ==
    IF \E i \in 1..Len(table.columns) : table.columns[i].name = k
    THEN CHOOSE i \in 1..Len(table.columns) :
           /\ table.columns[i].name = k
           /\ \A j \in 1..(i - 1) : table.columns[j].name # k
    ELSE 0

\* the text of one condition of column name and the parameter list after it
mapCondition(name, c, type, values, startVarIndex) ==
    IF IsArray(c.value)
    THEN LET v == c.value.a
             initIndex == Len(values)
             pushed == values \o [i \in 1..Len(v) |-> String(v[i])]
             finalValues == SubSeq(pushed, initIndex + 1, initIndex + Len(v))
         IN [sql |-> << Cond(name, operators[c.condition], "list",
                             [i \in 1..Len(finalValues) |-> i], type) >>,
             values |-> pushed]
    ELSE LET pushed == IF c.value # Undefined THEN Append(values, String(c.value)) ELSE values
             index == Len(pushed) + startVarIndex
         IN [sql |-> << IF c.value # Undefined
                        THEN Cond(name, operators[c.condition], "scalar", <<index>>, type)
                        ELSE Cond(name, operators[c.condition], "none", <<>>, type) >>,
             values |-> pushed]

\* data.SINGLE ?? data.ARRAY
SingleOrArray(data) == IF data.SINGLE # Undefined THEN data.SINGLE ELSE data.ARRAY

\* the column entries of an object that mapWhere keeps as conditions
KeptLeaf(table, leaf) ==
    LET d == SingleOrArray(leaf)
    IN /\ FindColumn(table, leaf.col) # 0
       /\ d # Undefined
       /\ d.condition # ""
       /\ (d.value # Undefined \/ d.condition \in nullableOperators)

\* the texts of a list so far and the parameter list so far
NoParts(values) == [parts |-> <<>>, values |-> values]
\* parts.push(r.sql), with the parameter list r leaves
Push(acc, r) == [parts |-> Append(acc.parts, r.sql), values |-> r.values]

RECURSIVE mapConditions(_, _, _, _)
\* conditions.map(...): the texts of the kept column entries, in order,
\* after the texts and parameters of acc
mapConditions(leaves, table, acc, startVarIndex) ==
    IF leaves = <<>> THEN acc
    ELSE mapConditions(Tail(leaves), table,
                       Push(acc, mapCondition(table.columns[FindColumn(table, Head(leaves).col)].name,
                                              SingleOrArray(Head(leaves)),
                                              table.columns[FindColumn(table, Head(leaves).col)].type,
                                              acc.values, startVarIndex)),
                       startVarIndex)

\* no subAND, no subOR yet
NoSubs(values) == [subAND |-> <<>>, subOR |-> <<>>, values |-> values]
\* subAND or subOR becomes the objects of the list l joined with the keyword
\* of the enclosing object
SetSub(acc, key, type, l) ==
    [subAND |-> IF key = "AND" THEN Join(l.parts, <<Kw(type)>>) ELSE acc.subAND,
     subOR |-> IF key = "OR" THEN Join(l.parts, <<Kw(type)>>) ELSE acc.subOR,
     values |-> l.values]

\* "(" sub ")" when the text is not empty
Group(sub) == IF sub # <<>> THEN <<Kw("(")>> \o sub \o <<Kw(")")>> ELSE <<>>

\* [...conditions, subAND, subOR].filter(Boolean).join(` ${type} `)
mapWhereText(s, cs, type) ==
    [sql |-> Join(Truthy(cs.parts \o << Group(s.subAND), Group(s.subOR) >>), <<Kw(type)>>),
     values |-> cs.values]

RECURSIVE mapWhere(_, _, _, _, _)
RECURSIVE mapWhereList(_, _, _, _, _)
RECURSIVE mapSubs(_, _, _, _, _)

\* va.map(v => mapWhere(v, key)): the texts of the objects of a list, in
\* order, after the texts and parameters of acc
mapWhereList(list, key, table, acc, startVarIndex) ==
    IF list = <<>> THEN acc
    ELSE mapWhereList(Tail(list), key, table,
                      Push(acc, mapWhere(Head(list), key, table, acc.values, startVarIndex)),
                      startVarIndex)

\* the AND/OR entries of an object, in key order: subAND and subOR
mapSubs(subs, type, table, acc, startVarIndex) ==
    IF subs = <<>> THEN acc
    ELSE mapSubs(Tail(subs), type, table,
                 SetSub(acc, Head(subs).key, type,
                        mapWhereList(Head(subs).list, Head(subs).key, table,
                                     NoParts(acc.values), startVarIndex)),
                 startVarIndex)

\* the conditions of an object after its subAND and subOR (s)
mapWhereConditions(v, type, table, s, startVarIndex) ==
    mapWhereText(s,
                 mapConditions(SelectSeq(v.leaves, LAMBDA leaf : KeptLeaf(table, leaf)), table,
                               NoParts(s.values), startVarIndex),
                 type)

\* the text of one object of an AND (type = "AND") or OR list
mapWhere(v, type, table, values, startVarIndex) ==
    mapWhereConditions(v, type, table,
                       mapSubs(v.subs, type, table, NoSubs(values), startVarIndex),
                       startVarIndex)

RECURSIVE ReplaceFirst(_, _, _)
\* text.replace('$' + name, by): the first $<name> of the text becomes by
ReplaceFirst(text, name, by) ==
    IF text = <<>> THEN <<>>
    ELSE IF Head(text).k = "var" /\ Head(text).s = name THEN <<by>> \o Tail(text)
    ELSE <<Head(text)>> \o ReplaceFirst(Tail(text), name, by)

RECURSIVE ReplaceVariables(_, _, _, _)
\* table.variables.forEach((v, i) => ...), from the variable at index i on
ReplaceVariables(defaultWhere, variables, i, startVarIndex) ==
    IF i >= Len(variables) THEN defaultWhere
    ELSE ReplaceVariables(ReplaceFirst(defaultWhere, variables[i + 1].name,
                                       Ph(i + startVarIndex, "")),
                          variables, i + 1, startVarIndex)

\* the WHERE clause from the texts of the AND list (and) and of the OR list
\* (or) and the defaultWhere after the replacement of its variables
whereSQLText(where, and, or, table, defaultWhere) ==
    [sql |-> <<Kw("WHERE")>>
             \o (IF defaultWhere # <<>>
                 THEN <<Kw("(")>> \o defaultWhere \o << Kw(")"), Kw("= TRUE"), Kw("AND") >>
                 ELSE <<>>)
             \o Join((IF where.AND.has THEN << Join(and.parts, <<Kw("AND")>>) >> ELSE <<>>)
                     \o (IF where.OR.has THEN << Join(or.parts, <<Kw("OR")>>) >> ELSE <<>>),
                     <<Kw("AND")>>),
     values |-> or.values,
     table |-> [table EXCEPT !.defaultWhere = defaultWhere]]

\* where.OR?.map(...) after the AND list
whereSQLOr(where, and, table, startVarIndex) ==
    whereSQLText(where, and,
                 IF where.OR.has
                 THEN mapWhereList(where.OR.list, "OR", table, NoParts(and.values), startVarIndex)
                 ELSE NoParts(and.values),
                 table,
                 IF table.defaultWhere # <<>> /\ table.variables.has
                 THEN ReplaceVariables(table.defaultWhere, table.variables.list, 0, startVarIndex)
                 ELSE table.defaultWhere)

\* whereSQL(where, values, table, startVarIndex): the WHERE clause, the
\* parameter list it leaves and the table it leaves
whereSQL(where, values, table, startVarIndex) ==
    whereSQLOr(where,
               IF where.AND.has
               THEN mapWhereList(where.AND.list, "AND", table, NoParts(values), startVarIndex)
               ELSE NoParts(values),
               table, startVarIndex)

(***************************************************************************)
(* The statement builders.                                                 *)
(***************************************************************************)
\* <schema>.<table>
QualifiedName(schemaName, tableName) == << Ident(schemaName), Kw("."), Ident(tableName) >>

\* names.join(', ')
JoinNames(names) == Join([i \in 1..Len(names) |-> <<Ident(names[i])>>], <<Kw(",")>>)

\* $from, $from+1, ... (n of them) joined with ', '
JoinPlaceholders(from, n) == Join([i \in 1..n |-> <<Ph(from + i - 1, "")>>], <<Kw(",")>>)

\* Object.keys(obj) and Object.values(obj)
Keys(obj) == [i \in 1..Len(obj.kv) |-> obj.kv[i][1]]
Values(obj) == [i \in 1..Len(obj.kv) |-> obj.kv[i][2]]

\* the names of the table's columns
ColumnNames(table) == [i \in 1..Len(table.columns) |-> table.columns[i].name]

\* what a builder hands back when it throws
Thrown(error, table) == [status |-> "throw", error |-> error, table |-> table]

\* the WHERE clause of a mutation without a filter
NoRows(table) ==
    [sql |-> << Kw("WHERE"), Kw("TRUE IS FALSE") >>, values |-> <<>>, table |-> table]

\* the UPDATE statement for the kept keys, their values and the WHERE clause w
updateStatement(schemaName, table, keys, updateValues, w) ==
    [status |-> "ok",
     query |-> << Kw("UPDATE") >> \o QualifiedName(schemaName, table.name)
               \o << Kw("SET"), Kw("(") >> \o JoinNames(keys) \o << Kw(")"), Kw("="), Kw("(") >>
               \o JoinPlaceholders(Len(w.values \o updateValues) - Len(updateValues) + 1,
                                   Len(updateValues))
               \o << Kw(")") >> \o w.sql \o << Kw("RETURNING *") >>,
     whereQuery |-> w.sql,
     values |-> w.values \o updateValues,
     table |-> w.table]

\* the keys of the value object that the table allows
updateKeys(table, value) ==
    SelectSeq(Keys(value),
              LAMBDA k : k \in Range(IF table.cols.has THEN table.cols.list ELSE ColumnNames(table))
                         /\ k # "")

\* makeMutationUpdate(schema, table, value, where)
makeMutationUpdate(schemaName, table, value, where) ==
    updateStatement(schemaName, table, updateKeys(table, value),
                    [i \in 1..Len(updateKeys(table, value)) |->
                       OrNull(Get(value, updateKeys(table, value)[i]))],
                    IF where.AND.has \/ where.OR.has
                    THEN whereSQL(where, <<>>, table, 0)
                    ELSE NoRows(table))

\* the DELETE statement for the WHERE clause w
deleteStatement(schemaName, table, w) ==
    [status |-> "ok",
     query |-> << Kw("DELETE FROM") >> \o QualifiedName(schemaName, table.name)
               \o w.sql \o << Kw("RETURNING *") >>,
     whereQuery |-> w.sql,
     values |-> w.values,
     table |-> w.table]

\* makeMutationDelete compiling every filter with whereSQL, also one without lists
makeMutationDeleteUnguarded(schemaName, table, where) ==
    deleteStatement(schemaName, table, whereSQL(where, <<>>, table, 0))

\* makeMutationDelete(schema, table, where)
makeMutationDelete(schemaName, table, where) ==
    deleteStatement(schemaName, table,
                    IF where.AND.has \/ where.OR.has
                    THEN whereSQL(where, <<>>, table, 0)
                    ELSE NoRows(table))

\* Array.prototype.slice(0, end)
SliceTo(seq, end) ==
    LET e == IF end < 0 THEN (IF Len(seq) + end > 0 THEN Len(seq) + end ELSE 0)
             ELSE IF end < Len(seq) THEN end ELSE Len(seq)
    IN SubSeq(seq, 1, e)

\* the placeholders of a row numbered without the rows before it
valuesTupleRestart(keys, multiplier, v) == JoinPlaceholders(1, Len(v))

\* v.map((_, i) => '$' + (keys.length * multiplier + (i + 1))).join(', ') for
\* the row v at the 0-based index multiplier
valuesTuple(keys, multiplier, v) == JoinPlaceholders(Len(keys) * multiplier + 1, Len(v))

RECURSIVE ReplaceCreateVariables(_, _, _, _)
\* variables.forEach((v, i) => ...) of makeMutationCreate, from index i on:
\* the defaultWhere after the replacements; pushed is finalValues.length
\* before the first push
ReplaceCreateVariables(defaultWhere, variables, i, pushed) ==
    IF i >= Len(variables) THEN defaultWhere
    ELSE ReplaceCreateVariables(
             ReplaceFirst(defaultWhere, String(Get(variables[i + 1], "name")).s,
                          NumTok((pushed + i + 1) - i)),
             variables, i + 1, pushed)

\* the column list restricted to the allow-list alone
createKeysAllowedOnly(table) ==
    SelectSeq(ColumnNames(table),
              LAMBDA c : IF table.cols.has /\ Len(table.cols.list) > 0
                         THEN c \in Range(table.cols.list)
                         ELSE TRUE)

\* columns.filter(c => Array.isArray(cols) && cols.length > 0
\*                       ? !c.nullable || cols.includes(c.name) : true).map(c => c.name)
createKeys(table) ==
    SelectSeq(ColumnNames(table),
              LAMBDA c : IF table.cols.has /\ Len(table.cols.list) > 0
                         THEN \/ ~table.columns[FindColumn(table, c)].nullable
                              \/ c \in Range(table.cols.list)
                         ELSE TRUE)

\* makeMutationCreate(schema, table, values, variables); values is the
\* sequence of the value objects, variables an optional array of objects
makeMutationCreate(schemaName, table, values, variables) ==
    LET vars == IF table.variables.has THEN table.variables.list ELSE <<>>
        checked == SelectSeq(vars, LAMBDA v : ~v.nullable /\ table.defaultWhere # <<>>)
        missing == { i \in 1..Len(checked) :
                       \E j \in 1..Len(variables.list) :
                           ~Boolean(Get(variables.list[j], checked[i].name)) }
        keys == createKeys(table)
        rows == [r \in 1..Len(values) |->
                   Arr([k \in 1..Len(keys) |-> OrNull(Get(values[r], keys[k]))])]
        finalValues == rows \o variables.list
        defaultWhere == ReplaceCreateVariables(table.defaultWhere, variables.list, 0, Len(rows))
        after == [table EXCEPT !.defaultWhere = defaultWhere]
        listed == IF defaultWhere # <<>>
                  THEN SliceTo(finalValues, Len(finalValues) - Len(vars))
                  ELSE finalValues
        tuple(m) == valuesTuple(keys, m - 1, listed[m].a)
        stringValues ==
            IF defaultWhere # <<>>
            THEN << Kw("SELECT") >> \o Join([m \in 1..Len(listed) |-> tuple(m)], <<Kw(",")>>)
                 \o << Kw("WHERE"), Kw("(") >> \o defaultWhere \o << Kw(")") >>
            ELSE << Kw("VALUES") >>
                 \o Join([m \in 1..Len(listed) |-> <<Kw("(")>> \o tuple(m) \o <<Kw(")")>>],
                         <<Kw(",")>>)
    IN IF missing # {}
       THEN Thrown("Variable is required", table)
       ELSE IF \E m \in 1..Len(listed) : ~IsArray(listed[m])
       THEN Thrown("TypeError: v.map is not a function", after)
       ELSE [status |-> "ok",
             query |-> << Kw("INSERT INTO") >> \o QualifiedName(schemaName, table.name)
                       \o << Kw("(") >> \o JoinNames(keys) \o << Kw(")") >>
                       \o stringValues \o << Kw("RETURNING *") >>,
             values |-> Flat([m \in 1..Len(finalValues) |->
                                IF IsArray(finalValues[m]) THEN finalValues[m].a
                                ELSE << finalValues[m] >>]),
             table |-> after]

\* orderBySQL(orderBy): orderBy is the sequence of its <<column, direction>> pairs
orderBySQL(orderBy) ==
    IF Len(orderBy) <= 0 \/ ~(\A i \in 1..Len(orderBy) : orderBy[i][2] \in {"ASC", "DESC"})
    THEN <<>>
    ELSE << Kw("ORDER BY") >>
         \o Join([i \in 1..Len(orderBy) |-> << Ident(orderBy[i][1]), Kw(orderBy[i][2]) >>],
                 <<Kw(",")>>)

\* the LIMIT and OFFSET placeholders one slot too far
limitOffsetSQLShifted(values) ==
    << Kw("LIMIT"), Ph(Len(values), "integer"), Kw("OFFSET"), Ph(Len(values) + 1, "integer") >>

\* LIMIT $<n - 1>::integer OFFSET $<n>::integer for the n values of the list
limitOffsetSQL(values) ==
    << Kw("LIMIT"), Ph(Len(values) - 1, "integer"), Kw("OFFSET"), Ph(Len(values), "integer") >>

\* cols?.length && cols.every(c => table.columns.find(...)) ? cols.join(', ') : '*'
colsSQL(table, cols) ==
    IF cols.has /\ Len(cols.list) > 0
       /\ \A i \in 1..Len(cols.list) : FindColumn(table, cols.list[i]) # 0
    THEN JoinNames(cols.list)
    ELSE << Kw("*") >>

\* the names of the table's non-nullable variables when it has a defaultWhere
requiredVariables(table) ==
    IF table.variables.has
    THEN { v.name : v \in { x \in Range(table.variables.list) :
                              ~x.nullable /\ table.defaultWhere # <<>> } }
    ELSE {}

\* variables ?? {}
suppliedVariables(variables) == IF variables = Undefined THEN Obj(<<>>) ELSE variables

\* Object.values(variables).filter(Boolean).map(String)
fromVariables(variables) ==
    [i \in 1..Len(SelectSeq(Values(suppliedVariables(variables)), Boolean)) |->
       String(SelectSeq(Values(suppliedVariables(variables)), Boolean)[i])]

\* the parameter list before the filter: the supplied variables, filled with
\* null up to the number of the table's variables
initialValues(table, variables) ==
    IF Len(fromVariables(variables)) < (IF table.variables.has THEN Len(table.variables.list) ELSE 0)
    THEN fromVariables(variables)
         \o [i \in 1..((IF table.variables.has THEN Len(table.variables.list) ELSE 0)
                       - Len(fromVariables(variables))) |-> Null]
    ELSE fromVariables(variables)

\* the WHERE clause of makeQuery for a filter without lists
defaultWhereOnly(table, values) ==
    [sql |-> IF table.defaultWhere # <<>>
             THEN << Kw("WHERE"), Kw("(") >> \o table.defaultWhere \o << Kw(")"), Kw("= TRUE") >>
             ELSE << Kw("WHERE"), Kw("TRUE = TRUE") >>,
     values |-> values, table |-> table]

\* the SELECT statement for the WHERE clause w and the ORDER BY clause
selectStatement(schemaName, table, limit, offset, cols, orderByQuery, w) ==
    [status |-> "ok",
     query |-> << Kw("SELECT") >> \o colsSQL(table, cols) \o << Kw("FROM") >>
               \o QualifiedName(schemaName, table.name) \o w.sql \o orderByQuery
               \o limitOffsetSQL(w.values \o << String(Num(limit)), String(Num(offset)) >>),
     values |-> w.values \o << String(Num(limit)), String(Num(offset)) >>,
     orderByQuery |-> orderByQuery,
     whereQuery |-> w.sql,
     table |-> w.table]

\* makeQuery(schema, table, limit, offset, where, variables, orderBy, cols);
\* variables is an object or Undefined, orderBy and cols are optional
makeQuery(schemaName, table, limit, offset, where, variables, orderBy, cols) ==
    IF ~(\A k \in Range(Keys(suppliedVariables(variables))) : k \in requiredVariables(table))
    THEN Thrown("One required variable is missing", table)
    ELSE selectStatement(schemaName, table, limit, offset, cols,
                         IF orderBy.has THEN orderBySQL(orderBy.list) ELSE <<>>,
                         IF where.AND.has \/ where.OR.has
                         THEN whereSQL(where, initialValues(table, variables), table, 0)
                         ELSE defaultWhereOnly(table, initialValues(table, variables)))

\* getPagesQuery(schemaName, tableName, where): where is [sql, finalIndex] or Undefined
getPagesQuery(schemaName, tableName, where) ==
    << Kw("SELECT (count(*) /"), Ph(IF where = Undefined THEN 1 ELSE where.finalIndex, ""),
       Kw(") as pages, count(*) as total_rows FROM") >>
    \o QualifiedName(schemaName, tableName)
    \o (IF where = Undefined THEN <<>> ELSE where.sql)

(***************************************************************************)
(* The READ resolver (queryType resolve).                                  *)
(***************************************************************************)
\* a JavaScript number that may be NaN
NaN == [nan |-> TRUE, n |-> 0]
Number(n) == [nan |-> FALSE, n |-> n]

\* the reply to the count statement: no row (the statement failed) or the
\* row (count(*) / <page size>, count(*)) of a table of total rows
CountReplies == {[failed |-> TRUE, total |-> 0]} \cup {[failed |-> FALSE, total |-> n] : n \in 0..MaxTotal}

\* the page size without the lower bound of the range
numberOfResultsNoLowerBound(args) == IF args.maxRows <= 100 THEN args.maxRows ELSE 100

\* the page size: args.maxRows, or 100 when it is not in 1..100
numberOfResults(args) == IF args.maxRows <= 100 /\ args.maxRows > 0 THEN args.maxRows ELSE 100

\* the 0-based page
pageNumber(args) == IF args.page >= 0 THEN args.page - 1 ELSE 0

\* Number(result.rows[0]?.pages) and Number(result.rows[0]?.total_rows)
replyPages(args, reply) ==
    IF reply.failed THEN NaN ELSE Number(reply.total \div numberOfResults(args))
replyTotalRows(reply) == IF reply.failed THEN NaN ELSE Number(reply.total)

\* what the READ field returns for the statement q of makeQuery
readResult(schemaName, table, args, reply, q) ==
    IF q.status = "throw" THEN q
    ELSE [status |-> "ok",
          query |-> q.query, values |-> q.values, whereQuery |-> q.whereQuery,
          limit |-> numberOfResults(args), offset |-> pageNumber(args) * numberOfResults(args),
          countQuery |-> getPagesQuery(schemaName, table.name,
                                       IF q.whereQuery # <<>>
                                       THEN [sql |-> q.whereQuery, finalIndex |-> Len(q.values) - 1]
                                       ELSE Undefined),
          countValues |-> SliceTo(q.values, -2) \o << Num(numberOfResults(args)) >>,
          pages |-> IF replyPages(args, reply).nan THEN 1 ELSE replyPages(args, reply).n + 1,
          totalRows |-> IF replyTotalRows(reply).nan THEN 0 ELSE replyTotalRows(reply).n,
          currentPage |-> IF pageNumber(args) <= 0 THEN 1 ELSE pageNumber(args),
          rowsPerPage |-> numberOfResults(args),
          hasNextPage |-> (IF replyPages(args, reply).nan THEN 0 ELSE replyPages(args, reply).n)
                          - pageNumber(args) > 0,
          table |-> q.table]

\* resolve(_root, args) of the READ field; reply is the database's answer to
\* the count statement
resolveRead(schemaName, table, args, reply) ==
    readResult(schemaName, table, args, reply,
               makeQuery(schemaName, table, numberOfResults(args),
                         pageNumber(args) * numberOfResults(args),
                         args.where, Undefined, args.orderBy, Absent))

(***************************************************************************)
(* The inputs of the calls.                                                *)
(***************************************************************************)
\* the variables objects handed to makeQuery
VariablesInputs ==
    { Undefined,
      Obj(<< <<"uid", Num(7)>> >>),
      Obj(<< <<"uid", Num(7)>>, <<"org", Str("acme")>> >>) }

\* limit, offset, orderBy and cols handed to makeQuery
QueryOptions ==
    { [limit |-> 20, offset |-> 0, orderBy |-> Absent, cols |-> Absent],
      [limit |-> 10, offset |-> 30, orderBy |-> Present(<< <<"name", "ASC">> >>),
       cols |-> Present(<<"name">>)] }

\* the value objects of the mutations
ValueObjects ==
    { Obj(<< <<"name", Str("Bia")>> >>),
      Obj(<< <<"id", Num(1)>>, <<"name", Str("Ana")>>, <<"email", Null>> >>),
      Obj(<< <<"email", Str("b@x")>>, <<"ghost", Num(9)>> >>) }

\* the value rows handed to makeMutationCreate
RECURSIVE SeqsUpTo(_, _)
SeqsUpTo(S, n) ==
    IF n = 0 THEN {<<>>}
    ELSE SeqsUpTo(S, n - 1) \cup { Append(q, x) : q \in SeqsUpTo(S, n - 1), x \in S }

CreateValues == SeqsUpTo(ValueObjects, MaxRows)

\* the variables arrays handed to makeMutationCreate
CreateVariables == { Absent, Present(<< Obj(<< <<"uid", Num(7)>> >>) >>) }

\* the arguments of the READ field
Pages == {-1, 0, 1, 2, 3}
PageSizes == {-1, 0, 1, 2, 20, 100, 101, 500}
ResolverWheres == WheresW(0) \cup { w \in WheresW(1) : w.AND.has /\ ~w.OR.has }

(***************************************************************************)
(* The state: the Table object the statements are compiled for, the call   *)
(* in progress and what it returned.                                       *)
(***************************************************************************)
VARIABLES table, call, result
vars == << table, call, result >>

Idle == [op |-> "none"]

\* what a call returns: the builder's record without the table it left
Returned(r) == [f \in (DOMAIN r) \ {"table"} |-> r[f]]

Init ==
    /\ table \in Tables
    /\ call = Idle
    /\ result = Idle

MakeQuery ==
    /\ call = Idle
    /\ \E where \in WheresWith, variables \in VariablesInputs, o \in QueryOptions :
         LET r == makeQuery(SchemaName, table, o.limit, o.offset, where, variables,
                            o.orderBy, o.cols)
         IN /\ call' = [op |-> "makeQuery", where |-> where, variables |-> variables,
                        limit |-> o.limit, offset |-> o.offset, orderBy |-> o.orderBy,
                        cols |-> o.cols, before |-> table]
            /\ result' = Returned(r)
            /\ table' = r.table

MakeMutationCreate ==
    /\ call = Idle
    /\ \E values \in CreateValues, variables \in CreateVariables :
         LET r == makeMutationCreate(SchemaName, table, values, variables)
         IN /\ call' = [op |-> "makeMutationCreate", values |-> values,
                        variables |-> variables, before |-> table]
            /\ result' = Returned(r)
            /\ table' = r.table

MakeMutationUpdate ==
    /\ call = Idle
    /\ \E value \in ValueObjects, where \in WheresWith :
         LET r == makeMutationUpdate(SchemaName, table, value, where)
         IN /\ call' = [op |-> "makeMutationUpdate", value |-> value, where |-> where,
                        before |-> table]
            /\ result' = Returned(r)
            /\ table' = r.table

MakeMutationDelete ==
    /\ call = Idle
    /\ \E where \in Wheres :
         LET r == makeMutationDelete(SchemaName, table, where)
         IN /\ call' = [op |-> "makeMutationDelete", where |-> where, before |-> table]
            /\ result' = Returned(r)
            /\ table' = r.table

ResolveRead ==
    /\ call = Idle
    /\ \E page \in Pages, maxRows \in PageSizes, where \in ResolverWheres,
          reply \in CountReplies :
         LET args == [page |-> page, maxRows |-> maxRows, where |-> where, orderBy |-> Absent]
             r == resolveRead(SchemaName, table, args, reply)
         IN /\ call' = [op |-> "resolveRead", page |-> page, maxRows |-> maxRows,
                        where |-> where, reply |-> reply, before |-> table]
            /\ result' = Returned(r)
            /\ table' = r.table

\* the caller takes the result; the Table object stays as the call left it
Return ==
    /\ call # Idle
    /\ call' = Idle
    /\ result' = Idle
    /\ UNCHANGED table

Next ==
    \/ MakeQuery
    \/ MakeMutationCreate
    \/ MakeMutationUpdate
    \/ MakeMutationDelete
    \/ ResolveRead
    \/ Return

Spec == Init /\ [][Next]_vars

(***************************************************************************)
(* Properties.                                                             *)
(***************************************************************************)
Builders == {"makeQuery", "makeMutationCreate", "makeMutationUpdate", "makeMutationDelete"}

\* a builder has returned a statement
Built == call.op \in Builders /\ result.status = "ok"

\* C1: in every statement a builder returns, the $n placeholders of the SQL
\* text are exactly 1..Len(values), each index standing for one value only
C1_PlaceholdersMatchValues ==
    Built =>
      LET ph == Placeholders(result.query)
      IN /\ Range(ph) = 1..Len(result.values)
         /\ \A i, j \in 1..Len(ph) : i # j => ph[i] # ph[j]

\* a filter with neither an AND nor an OR list
NoLists(where) == ~where.AND.has /\ ~where.OR.has

ImpossibleWhere == << Kw("WHERE"), Kw("TRUE IS FALSE") >>

\* C5: makeMutationUpdate and makeMutationDelete called with a filter that has
\* neither an AND nor an OR list return whereQuery 'WHERE TRUE IS FALSE', and
\* that clause is the WHERE clause of the statement
C5_NoFilterAffectsNoRow ==
    (call.op \in {"makeMutationUpdate", "makeMutationDelete"} /\ NoLists(call.where)) =>
      /\ result.status = "ok"
      /\ result.whereQuery = ImpossibleWhere
      /\ Len(result.query) >= 3
      /\ SubSeq(result.query, Len(result.query) - 2, Len(result.query))
           = ImpossibleWhere \o << Kw("RETURNING *") >>
      /\ \A i \in 1..(Len(result.query) - 3) : result.query[i] # Kw("WHERE")

\* C5 witness: an update of a table with a defaultWhere, called without lists,
\* has returned the impossible predicate
C5_Witness ==
    /\ call.op = "makeMutationUpdate"
    /\ NoLists(call.where)
    /\ call.before.defaultWhere # <<>>
    /\ Len(Keys(call.value)) > 0
    /\ result.whereQuery = ImpossibleWhere

\* C6: the READ resolver treats every page number <= 0 as page 1: offset 0
\* and currentPage 1
C6_NonPositivePageIsPageOne ==
    (call.op = "resolveRead" /\ call.page <= 0) =>
      /\ result.offset = 0
      /\ result.values[Len(result.values)] = Str("0")
      /\ result.currentPage = 1

\* the page size the READ resolver is to use for maxRows
ClampedPageSize(maxRows) == IF 1 <= maxRows /\ maxRows <= 100 THEN maxRows ELSE 100

\* C7: the page size of the READ resolver (LIMIT value and rowsPerPage) is
\* maxRows when 1 <= maxRows <= 100 and 100 otherwise, so it lies in 1..100
C7_PageSizeClamped ==
    call.op = "resolveRead" =>
      /\ result.rowsPerPage = ClampedPageSize(call.maxRows)
      /\ result.limit = ClampedPageSize(call.maxRows)
      /\ result.values[Len(result.values) - 1] = Str(ToString(ClampedPageSize(call.maxRows)))
      /\ result.rowsPerPage \in 1..100

\* C7 witness: maxRows = 500 has been clamped to 100
C7_Witness ==
    /\ call.op = "resolveRead"
    /\ call.maxRows = 500
    /\ result.rowsPerPage = 100

\* C8: in the result of the READ resolver, for every requested page >= 1,
\* hasNextPage is true iff pages - currentPage > 0
C8_HasNextPage ==
    (call.op = "resolveRead" /\ call.page >= 1) =>
      (result.hasNextPage <=> result.pages - result.currentPage > 0)

\* the number of parameters a column entry appends when it is kept
LeafParams(tbl, leaf) ==
    IF ~KeptLeaf(tbl, leaf) THEN 0
    ELSE IF IsArray(SingleOrArray(leaf).value) THEN Len(SingleOrArray(leaf).value.a)
    ELSE IF SingleOrArray(leaf).value # Undefined THEN 1 ELSE 0

RECURSIVE SumOver(_, _)
\* the sum of f[i] for i in 1..n
SumOver(f, n) == IF n = 0 THEN 0 ELSE f[n] + SumOver(f, n - 1)

RECURSIVE NodeParams(_, _)
\* the number of parameters the conditions of an object and of its lists carry
NodeParams(tbl, v) ==
    SumOver([i \in 1..Len(v.leaves) |-> LeafParams(tbl, v.leaves[i])], Len(v.leaves))
    + SumOver([i \in 1..Len(v.subs) |->
                 SumOver([j \in 1..Len(v.subs[i].list) |-> NodeParams(tbl, v.subs[i].list[j])],
                         Len(v.subs[i].list))],
              Len(v.subs))

\* the number of parameters the conditions of a filter carry
WhereParams(tbl, where) ==
    SumOver([j \in 1..Len(where.AND.list) |-> NodeParams(tbl, where.AND.list[j])],
            Len(where.AND.list))
    + SumOver([j \in 1..Len(where.OR.list) |-> NodeParams(tbl, where.OR.list[j])],
              Len(where.OR.list))

\* the number of slots makeQuery reserves for the Variables
VariableSlots(tbl, variables) ==
    LET supplied == IF variables = Undefined THEN 0
                    ELSE Len(SelectSeq(Values(variables), Boolean))
        declared == IF tbl.variables.has THEN Len(tbl.variables.list) ELSE 0
    IN IF supplied < declared THEN declared ELSE supplied

\* the filter {AND: [{name: {SINGLE: {condition: 'EQUAL', value: 'Ana'}}}]}
AnaFilter ==
    Where(Present(<< Node(<< Leaf("name", Condition("EQUAL", Str("Ana")), Undefined) >>, <<>>) >>),
          Absent)

ColumnListOf(query) ==
    LET open == CHOOSE i \in 1..Len(query) :
                  query[i] = Kw("(") /\ \A j \in 1..(i - 1) : query[j] # Kw("(")
        close == CHOOSE i \in 1..Len(query) :
                   query[i] = Kw(")") /\ \A j \in 1..(i - 1) : query[j] # Kw(")")
        inside == SubSeq(query, open + 1, close - 1)
        names == SelectSeq(inside, LAMBDA t : t.k = "id")
    IN [i \in 1..Len(names) |-> names[i].s]

Atoms == Range(ColumnNames([columns |-> UsersColumns])) \cup {"defaultWhere"}
Rows == SUBSET Atoms

NoParse == [ok |-> FALSE, sat |-> {}, pos |-> 0]

RECURSIVE ParseExpr(_, _)
RECURSIVE ParseExprRest(_, _, _)
RECURSIVE ParseTerm(_, _)
RECURSIVE ParseTermRest(_, _, _)
RECURSIVE ParseFactor(_, _)
RECURSIVE SkipFragment(_, _)

\* the position after the run of defaultWhere fragments that starts at i
SkipFragment(toks, i) ==
    IF i <= Len(toks) /\ toks[i].k \in {"raw", "var", "ph", "num"}
    THEN SkipFragment(toks, i + 1) ELSE i

\* factor ::= condition | TRUE = TRUE | TRUE IS FALSE | fragment
\*          | "(" expr ")" [ "= TRUE" ]
ParseFactor(toks, i) ==
    IF i > Len(toks) THEN NoParse
    ELSE IF toks[i].k = "cond"
    THEN [ok |-> TRUE, sat |-> {r \in Rows : toks[i].s \in r}, pos |-> i + 1]
    ELSE IF toks[i] = Kw("TRUE = TRUE") THEN [ok |-> TRUE, sat |-> Rows, pos |-> i + 1]
    ELSE IF toks[i] = Kw("TRUE IS FALSE") THEN [ok |-> TRUE, sat |-> {}, pos |-> i + 1]
    ELSE IF toks[i].k \in {"raw", "var", "ph", "num"}
    THEN [ok |-> TRUE, sat |-> {r \in Rows : "defaultWhere" \in r}, pos |-> SkipFragment(toks, i)]
    ELSE IF toks[i] = Kw("(")
    THEN LET e == ParseExpr(toks, i + 1)
         IN IF e.ok /\ e.pos <= Len(toks) /\ toks[e.pos] = Kw(")")
            THEN [ok |-> TRUE, sat |-> e.sat,
                  pos |-> IF e.pos + 1 <= Len(toks) /\ toks[e.pos + 1] = Kw("= TRUE")
                          THEN e.pos + 2 ELSE e.pos + 1]
            ELSE NoParse
    ELSE NoParse

\* term ::= factor { AND factor }
ParseTermRest(toks, i, acc) ==
    IF i <= Len(toks) /\ toks[i] = Kw("AND")
    THEN LET f == ParseFactor(toks, i + 1)
         IN IF f.ok THEN ParseTermRest(toks, f.pos, acc \cap f.sat) ELSE NoParse
    ELSE [ok |-> TRUE, sat |-> acc, pos |-> i]

ParseTerm(toks, i) ==
    LET f == ParseFactor(toks, i)
    IN IF f.ok THEN ParseTermRest(toks, f.pos, f.sat) ELSE NoParse

\* expr ::= term { OR term }: AND binds tighter than OR
ParseExprRest(toks, i, acc) ==
    IF i <= Len(toks) /\ toks[i] = Kw("OR")
    THEN LET t == ParseTerm(toks, i + 1)
         IN IF t.ok THEN ParseExprRest(toks, t.pos, acc \cup t.sat) ELSE NoParse
    ELSE [ok |-> TRUE, sat |-> acc, pos |-> i]

ParseExpr(toks, i) ==
    LET t == ParseTerm(toks, i)
    IN IF t.ok THEN ParseExprRest(toks, t.pos, t.sat) ELSE NoParse

\* the rows a WHERE clause selects; ok is FALSE when the text after WHERE is
\* not a boolean expression (the statement is rejected and selects no row)
Selected(whereQuery) ==
    LET e == IF whereQuery # <<>> /\ Head(whereQuery) = Kw("WHERE")
             THEN ParseExpr(Tail(whereQuery), 1) ELSE NoParse
    IN IF e.ok /\ e.pos = Len(whereQuery) THEN [ok |-> TRUE, sat |-> e.sat]
       ELSE [ok |-> FALSE, sat |-> {}]

RECURSIVE Combine(_, _)
\* the rows of the conjunction (key = "AND") or disjunction of the parts
Combine(parts, key) ==
    IF Len(parts) = 1 THEN parts[1]
    ELSE IF key = "AND" THEN parts[1] \cap Combine(Tail(parts), key)
    ELSE parts[1] \cup Combine(Tail(parts), key)

RECURSIVE NodeRows(_, _)
\* the rows an object of a list of the kind key selects: its column entries
\* and its lists, all combined with key; a list combines its objects with
\* its own keyword
NodeRows(v, key) ==
    Combine([i \in 1..Len(v.leaves) |-> {r \in Rows : v.leaves[i].col \in r}]
            \o [i \in 1..Len(v.subs) |->
                  Combine([j \in 1..Len(v.subs[i].list) |->
                             NodeRows(v.subs[i].list[j], v.subs[i].key)],
                          v.subs[i].key)],
            key)

\* the rows a filter selects: (AND list) AND (OR list)
WhereRows(where) ==
    Combine((IF where.AND.has
             THEN << Combine([j \in 1..Len(where.AND.list) |-> NodeRows(where.AND.list[j], "AND")],
                             "AND") >>
             ELSE <<>>)
            \o (IF where.OR.has
                THEN << Combine([j \in 1..Len(where.OR.list) |-> NodeRows(where.OR.list[j], "OR")],
                                "OR") >>
                ELSE <<>>),
            "AND")

RECURSIVE NodeWellFormed(_, _)
\* every column entry of the object is kept and the object and its lists
\* are not empty
NodeWellFormed(tbl, v) ==
    /\ Len(v.leaves) + Len(v.subs) > 0
    /\ \A i \in 1..Len(v.leaves) : KeptLeaf(tbl, v.leaves[i])
    /\ \A i \in 1..Len(v.subs) :
         /\ Len(v.subs[i].list) > 0
         /\ \A j \in 1..Len(v.subs[i].list) : NodeWellFormed(tbl, v.subs[i].list[j])

\* a filter with a list, whose lists are non-empty and hold kept entries only
WellFormed(tbl, where) ==
    /\ where.AND.has \/ where.OR.has
    /\ where.AND.has => Len(where.AND.list) > 0
    /\ where.OR.has => Len(where.OR.list) > 0
    /\ \A j \in 1..Len(where.AND.list) : NodeWellFormed(tbl, where.AND.list[j])
    /\ \A j \in 1..Len(where.OR.list) : NodeWellFormed(tbl, where.OR.list[j])

\* the call compiled its filter with whereSQL
UsedWhereSQL ==
    /\ call.op \in {"makeQuery", "makeMutationUpdate", "makeMutationDelete"}
    /\ result.status = "ok"
    /\ ~NoLists(call.where)

\* C2: the predicate whereSQL produces, read with AND binding tighter than
\* OR, selects the rows the condition tree selects: nested lists are
\* parenthesized and joined with their own keyword, and a filter with both
\* lists is (AND list) AND (OR list)
C2_PredicateMeansTree ==
    (UsedWhereSQL /\ call.before.defaultWhere = <<>> /\ WellFormed(call.before, call.where)) =>
      /\ Selected(result.whereQuery).ok
      /\ Selected(result.whereQuery).sat = WhereRows(call.where)

\* C3: for a table with a defaultWhere and a filter with an AND list, an OR
\* list or both, no row for which defaultWhere is false satisfies the
\* compiled WHERE clause
C3_DefaultWhereGuardsEveryRow ==
    (UsedWhereSQL /\ call.before.defaultWhere # <<>>) =>
      \A r \in Selected(result.whereQuery).sat : "defaultWhere" \in r

RECURSIVE PruneNode(_, _)
RECURSIVE PruneList(_, _)
\* the object without its column entries on unknown columns, and without the
\* objects and lists this leaves empty
PruneNode(tbl, v) ==
    LET pruned == [i \in 1..Len(v.subs) |-> Sub(v.subs[i].key, PruneList(tbl, v.subs[i].list))]
    IN Node(SelectSeq(v.leaves, LAMBDA leaf : FindColumn(tbl, leaf.col) # 0),
            SelectSeq(pruned, LAMBDA sub : sub.list # <<>>))

PruneList(tbl, list) ==
    SelectSeq([j \in 1..Len(list) |-> PruneNode(tbl, list[j])],
              LAMBDA v : v # Node(<<>>, <<>>))

\* the filter without its column entries on unknown columns
Prune(tbl, where) ==
    Where([has |-> where.AND.has, list |-> PruneList(tbl, where.AND.list)],
          [has |-> where.OR.has, list |-> PruneList(tbl, where.OR.list)])

\* the WHERE clause the builder of the call returns for another filter
WhereQueryFor(where) ==
    CASE call.op = "makeQuery" ->
           makeQuery(SchemaName, call.before, call.limit, call.offset, where,
                     call.variables, call.orderBy, call.cols).whereQuery
      [] call.op = "makeMutationUpdate" ->
           makeMutationUpdate(SchemaName, call.before, call.value, where).whereQuery
      [] call.op = "makeMutationDelete" ->
           makeMutationDelete(SchemaName, call.before, where).whereQuery

\* C4: a column entry on an unknown column is dropped without a trace: the
\* predicate of a filter is the predicate of the filter without these
\* entries, with no empty operand and no dangling AND/OR
C4_UnknownColumnLeavesNoTrace ==
    (/\ UsedWhereSQL
     /\ Prune(call.before, call.where) # call.where
     /\ call.where.AND.has => Prune(call.before, call.where).AND.list # <<>>
     /\ call.where.OR.has => Prune(call.before, call.where).OR.list # <<>>) =>
      result.whereQuery = WhereQueryFor(Prune(call.before, call.where))

(***************************************************************************)
(* Variables of a defaultWhere.                                            *)
(***************************************************************************)
\* the names of the non-nullable Variables the table declares
NonNullableVariables(tbl) ==
    IF tbl.variables.has
    THEN { v.name : v \in { x \in Range(tbl.variables.list) : ~x.nullable } }
    ELSE {}

\* the call supplies a value for the Variable of this name
SuppliesVariable(name) ==
    IF call.op = "makeQuery"
    THEN call.variables # Undefined /\ Get(call.variables, name) # Undefined
    ELSE /\ call.variables.has
         /\ Len(call.variables.list) > 0
         /\ \A j \in 1..Len(call.variables.list) : Get(call.variables.list[j], name) # Undefined

\* the call ended with the error for a missing variable
MissingVariableError ==
    /\ result.status = "throw"
    /\ result.error \in {"One required variable is missing", "Variable is required"}

\* C11: makeQuery and makeMutationCreate on a table with a defaultWhere throw
\* the missing-variable error exactly when a non-nullable declared Variable
\* is not supplied, also when no variables argument is given
C11_MissingVariableThrows ==
    (call.op \in {"makeQuery", "makeMutationCreate"} /\ call.before.defaultWhere # <<>>) =>
      (MissingVariableError <=>
         \E name \in NonNullableVariables(call.before) : ~SuppliesVariable(name))

\* C12: when makeQuery compiles a filter for a table with a defaultWhere and
\* Variables, the token $<name> of the defaultWhere becomes the placeholder
\* whose index is the position of the value supplied for that Variable in
\* the returned parameter list, and that position lies before the
\* positions of the filter's parameters
C12_VariablePlaceholderIsItsPosition ==
    (/\ call.op = "makeQuery" /\ result.status = "ok"
     /\ ~NoLists(call.where)
     /\ call.before.variables.has /\ call.before.defaultWhere # <<>>
     /\ call.variables # Undefined) =>
      \A j \in 1..Len(call.before.defaultWhere) :
        LET tok == call.before.defaultWhere[j]
            out == result.whereQuery[2 + j]
        IN (tok.k = "var" /\ Get(call.variables, tok.s) # Undefined) =>
             /\ out.k = "ph"
             /\ out.ph[1] \in 1..VariableSlots(call.before, call.variables)
             /\ result.values[out.ph[1]] = String(Get(call.variables, tok.s))

\* C13: a builder leaves the Table object as it found it: after the call
\* table.defaultWhere and every other field have the values they had before
C13_TableUnchanged ==
    call.op \in Builders => table = call.before

\* the parameter list the call hands to whereSQL
InitialOf ==
    IF call.op = "makeQuery" THEN initialValues(call.before, call.variables) ELSE <<>>

\* C14: whereSQL called again with the same condition tree, the same Table
\* object, an equal initial parameter list and the same start index returns
\* the text and leaves the parameter list of the first call
C14_WhereSQLIdempotent ==
    UsedWhereSQL =>
      /\ whereSQL(call.where, InitialOf, table, 0).sql = result.whereQuery
      /\ whereSQL(call.where, InitialOf, table, 0).values
           = whereSQL(call.where, InitialOf, call.before, 0).values

(***************************************************************************)
(* The cols allow-list.                                                    *)
(***************************************************************************)
\* the columns a statement names: in its conditions, in its lists of names
\* and, for the projection *, all the columns of the table
ReferencedColumns(tbl, query) ==
    { tok.s : tok \in { x \in Range(query) : x.k = "cond" } }
    \cup { tok.s : tok \in { x \in Range(query) : x.k = "id" /\ x.s \notin {SchemaName, tbl.name} } }
    \cup (IF Kw("*") \in Range(query) THEN Range(ColumnNames(tbl)) ELSE {})

\* C15: for a table with a non-empty cols allow-list, a Select, Update or
\* Delete statement names only columns of cols, in its projection, its
\* conditions, its ORDER BY clause and its SET list
C15_OnlyAllowedColumns ==
    (/\ call.op \in {"makeQuery", "makeMutationUpdate", "makeMutationDelete"}
     /\ result.status = "ok"
     /\ call.before.cols.has /\ Len(call.before.cols.list) > 0) =>
      ReferencedColumns(call.before, result.query) \subseteq Range(call.before.cols.list)

\* the positions of the names of a list among the table's columns
ColumnPositions(tbl, names) == [i \in 1..Len(names) |-> FindColumn(tbl, names[i])]

\* C16: the column list of makeMutationCreate holds every non-nullable
\* column; with a non-empty cols it holds exactly the columns that are
\* non-nullable or in cols, without one all the columns; in table order
C16_CreateColumnList ==
    (call.op = "makeMutationCreate" /\ result.status = "ok") =>
      LET names == ColumnListOf(result.query)
          tbl == call.before
      IN /\ \A i \in 1..Len(tbl.columns) :
              ~tbl.columns[i].nullable => tbl.columns[i].name \in Range(names)
         /\ Range(names)
              = IF tbl.cols.has /\ Len(tbl.cols.list) > 0
                THEN { c.name : c \in { x \in Range(tbl.columns) :
                                          ~x.nullable \/ x.name \in Range(tbl.cols.list) } }
                ELSE { c.name : c \in Range(tbl.columns) }
         /\ \A i, j \in 1..Len(names) :
              i < j => ColumnPositions(tbl, names)[i] < ColumnPositions(tbl, names)[j]

\* C16 witness: a column list that leaves a nullable column out and holds a
\* non-nullable column that cols does not list
C16_Witness ==
    /\ call.op = "makeMutationCreate"
    /\ result.status = "ok"
    /\ call.before.cols = Present(<<"name">>)
    /\ ColumnListOf(result.query) = <<"id", "name">>

(***************************************************************************)
(* The count statement of the READ resolver.                               *)
(***************************************************************************)
\* the READ resolver has built its two statements
ReadBuilt == call.op = "resolveRead" /\ result.status = "ok"

\* the count statement ends with the Select's predicate, its parameters are
\* the Select's without the last two followed by the page size, and its
\* divisor is the placeholder of the last parameter
CountReusesSelect ==
    LET n == Len(result.countQuery)
        w == Len(result.whereQuery)
    IN /\ w <= n
       /\ SubSeq(result.countQuery, n - w + 1, n) = result.whereQuery
       /\ result.countValues
            = SubSeq(result.values, 1, Len(result.values) - 2) \o << Num(result.rowsPerPage) >>
       /\ result.countQuery[2] = Ph(Len(result.countValues), "")

\* C17: the count statement of the READ resolver reuses the Select's
\* predicate text and leading parameters, binds the page size to the
\* divisor placeholder, whose index is the length of its parameter list, and
\* so has one parameter per placeholder index
C17_CountStatement ==
    ReadBuilt =>
      /\ CountReusesSelect
      /\ Range(Placeholders(result.countQuery)) = 1..Len(result.countValues)
      /\ \A i \in 1..Len(result.countQuery) : result.countQuery[i].k # "var"

\* the part of C17 that is the resolver's own
C17_CountReusesSelect == ReadBuilt => CountReusesSelect

(***************************************************************************)
(* linkResultWithForeignsKeys: the rows of a result with the rows their    *)
(* foreign keys reference.                                                 *)
(***************************************************************************)
\* number of rows handed to linkResultWithForeignsKeys
MaxLinkRows == 2

\* a column with its foreignKey: data is Undefined or the reference
LinkColumn(name, is, data) == [name |-> name, foreignKey |-> [is |-> is, data |-> data]]
Reference(referencedTable, nexusObjectName) ==
    [referencedTable |-> referencedTable, nexusObjectName |-> nexusObjectName]

\* the tables whose rows are linked: one foreign key; two foreign keys to
\* the same table; a foreign key to a table named like a plain column
LinkTables ==
    { [name |-> "post",
       columns |-> << LinkColumn("id", FALSE, Undefined),
                      LinkColumn("owner", TRUE, Reference("person", "Person")) >>],
      [name |-> "post",
       columns |-> << LinkColumn("id", FALSE, Undefined),
                      LinkColumn("owner", TRUE, Reference("person", "Person")),
                      LinkColumn("editor", TRUE, Reference("person", "Person")) >>],
      [name |-> "post",
       columns |-> << LinkColumn("id", FALSE, Undefined),
                      LinkColumn("person", FALSE, Undefined),
                      LinkColumn("owner", TRUE, Reference("person", "Person")) >>] }

\* the values of a foreign-key column: 1 references a row, 2 references no
\* row, the lookup of 3 fails
KeyValues == {Num(1), Num(2), Num(3)}

\* the row with this id of a table: v in every foreign-key column, or no
\* foreign-key column at all
LinkRow(tbl, id, v) ==
    Obj(<< <<"id", Num(id)>> >>
        \o (IF v = Undefined THEN <<>>
            ELSE [j \in 1..Len(SelectSeq(tbl.columns, LAMBDA c : c.foreignKey.is)) |->
                    << SelectSeq(tbl.columns, LAMBDA c : c.foreignKey.is)[j].name, v >>]))

\* the results of a query on the table: rows with distinct ids in any order
LinkRows(tbl) ==
    UNION { { [i \in 1..k |-> LinkRow(tbl, ids[i], vs[i])] :
                ids \in Perms(1..MaxLinkRows, k), vs \in [1..k -> KeyValues \cup {Undefined}] } :
            k \in 0..MaxLinkRows }

\* the promise of the lookup for the foreign key j of the row i
Promise(i, j) == [t |-> "promise", row |-> i, key |-> j]

\* what the lookup of a value settles to: res.length > 0 ? res[0] : null,
\* where a failed execQuery is null and (res?.rows ?? []) is empty
LookupResult(referencedTable, v) ==
    IF v = Num(1) THEN Obj(<< <<"table", Str(referencedTable)>>, <<"id", v>> >>) ELSE Null

\* the table's foreign-key columns that the resolvers hand over
ForeignKeys(tbl) ==
    SelectSeq(tbl.columns, LAMBDA c : c.foreignKey.is /\ c.foreignKey.data # Undefined)

\* obj[key] = value
SetKey(obj, key, value) ==
    IF \E i \in 1..Len(obj.kv) : obj.kv[i][1] = key
    THEN Obj([i \in 1..Len(obj.kv) |-> IF obj.kv[i][1] = key THEN <<key, value>> ELSE obj.kv[i]])
    ELSE Obj(Append(obj.kv, <<key, value>>))

\* the element of foreignResults for the foreign key j of the row i
foreignResult(fk, rr, i, j) ==
    [name |-> fk.name,
     referencedTable |-> IF fk.foreignKey.data = Undefined THEN ""
                         ELSE fk.foreignKey.data.referencedTable,
     result |-> IF fk.foreignKey.data # Undefined /\ Get(rr, fk.name) # Undefined
                THEN Promise(i, j) ELSE Null]

\* referencedTable when no column of the table has that name, else the
\* name of the foreign-key column
customName(tbl, f) ==
    IF f.referencedTable # "" /\ \A c \in Range(tbl.columns) : c.name # f.referencedTable
    THEN f.referencedTable ELSE f.name

RECURSIVE plainEntries(_, _, _)
\* res[colName] = rr[colName] or null for the columns that are no foreign
\* key or have no nexusObjectName, from the column k on
plainEntries(tbl, rr, k) ==
    IF k > Len(tbl.columns) THEN <<>>
    ELSE (IF ~tbl.columns[k].foreignKey.is
             \/ tbl.columns[k].foreignKey.data = Undefined
             \/ tbl.columns[k].foreignKey.data.nexusObjectName = ""
          THEN << << tbl.columns[k].name,
                     IF Get(rr, tbl.columns[k].name) # Undefined
                     THEN Get(rr, tbl.columns[k].name) ELSE Null >> >>
          ELSE <<>>)
         \o plainEntries(tbl, rr, k + 1)

RECURSIVE linkedEntries(_, _, _, _, _, _)
\* foreignResults.forEach(...): res[customName] = v, from the foreign key j on
linkedEntries(res, foreignKeys, tbl, rr, i, j) ==
    IF j > Len(foreignKeys) THEN res
    ELSE linkedEntries(SetKey(res, customName(tbl, foreignResult(foreignKeys[j], rr, i, j)),
                              foreignResult(foreignKeys[j], rr, i, j).result),
                       foreignKeys, tbl, rr, i, j + 1)

\* linkResultWithForeignsKeys(foreignKeys, table, r): the rows it resolves to
linkResultWithForeignsKeys(foreignKeys, tbl, r) ==
    IF Len(foreignKeys) > 0
    THEN [i \in 1..Len(r) |->
            linkedEntries(Obj(plainEntries(tbl, r[i], 1)), foreignKeys, tbl, r[i], i, 1)]
    ELSE r

\* the lookups a call starts: one per row and foreign key with a value
Lookups(foreignKeys, r) ==
    { Promise(i, j) : i \in 1..Len(r), j \in 1..Len(foreignKeys) } \cap
    { p \in [t : {"promise"}, row : 1..Len(r), key : 1..Len(foreignKeys)] :
        Get(r[p.row], foreignKeys[p.key].name) # Undefined }

LinkInit ==
    /\ table \in LinkTables
    /\ call = Idle
    /\ result = Idle

\* the resolver links the rows of a result; the lookups it started are
\* pending when the rows are handed back
LinkResult ==
    /\ call = Idle
    /\ \E r \in LinkRows(table) :
         /\ call' = [op |-> "linkResultWithForeignsKeys", r |-> r,
                     pending |-> Lookups(ForeignKeys(table), r), settled |-> <<>>]
         /\ result' = [status |-> "ok",
                       rows |-> linkResultWithForeignsKeys(ForeignKeys(table), table, r)]
    /\ UNCHANGED table

\* the database answers one of the pending lookups, in any order
LookupSettles ==
    /\ call # Idle
    /\ \E p \in call.pending :
         call' = [call EXCEPT !.pending = @ \ {p}, !.settled = Append(@, p)]
    /\ UNCHANGED << table, result >>

LinkNext ==
    \/ LinkResult
    \/ LookupSettles
    \/ Return

LinkSpec == LinkInit /\ [][LinkNext]_vars

\* the value the entry of a linked row must hold for the foreign key j of
\* the row i: the referenced row, or null
LinkedValue(i, j) ==
    LookupResult(ForeignKeys(table)[j].foreignKey.data.referencedTable,
                 Get(call.r[i], ForeignKeys(table)[j].name))

\* the call returned linked rows
Linked == call # Idle /\ result.status = "ok"

\* C18: linkResultWithForeignsKeys returns the rows in the order supplied,
\* never fails, and every entry of a row for a foreign key with a value
\* holds the referenced row, or null when there is none or the lookup
\* failed, and not a lookup that is still pending
C18_LinkedRowsHoldResults ==
    Linked =>
      /\ Len(result.rows) = Len(call.r)
      /\ \A i \in 1..Len(call.r) : Get(result.rows[i], "id") = Get(call.r[i], "id")
      /\ \A p \in Lookups(ForeignKeys(table), call.r) :
           \E e \in Range(result.rows[p.row].kv) : e[2] = LinkedValue(p.row, p.key)
      /\ \A i \in 1..Len(result.rows) : \A e \in Range(result.rows[i].kv) :
           e[2].t # "promise"

\* the part of C18 about the order of the rows
C18_RowsInOrder ==
    Linked =>
      /\ Len(result.rows) = Len(call.r)
      /\ \A i \in 1..Len(call.r) : Get(result.rows[i], "id") = Get(call.r[i], "id")

(***************************************************************************)
(* matchGitignorePattern (src/src/utils/string.ts): a string is the        *)
(* sequence of its characters.                                             *)
(***************************************************************************)
\* length of a pattern and of a name
MaxPatternLen == 3
MaxNameLen == 3

\* the characters of the class [\-\[\]\/\{\}\(\)\+\?\.\\\^\$\|]
RegexMeta == {"-", "[", "]", "/", "{", "}", "(", ")", "+", "?", ".", "\\", "^", "$", "|"}

RECURSIVE ReplaceAll(_, _, _)
\* s.replace(/[...]/g, by): every character of the class becomes the text
\* by, in which "&" stands for the character itself
ReplaceAll(s, class, by) ==
    IF s = <<>> THEN <<>>
    ELSE (IF Head(s) \in class
          THEN [n \in 1..Len(by) |-> IF by[n] = "&" THEN Head(s) ELSE by[n]]
          ELSE << Head(s) >>)
         \o ReplaceAll(Tail(s), class, by)

\* the source of the regular expression between ^ and $
regexSource(pattern) ==
    ReplaceAll(ReplaceAll(ReplaceAll(pattern, RegexMeta, << "\\", "&" >>),
                          {"*"}, << ".", "*" >>),
               {"?"}, << ".", "{", "1", "}" >>)

\* the position after the atom that starts at the position i
AfterAtom(src, i) == IF src[i] = "\\" /\ i < Len(src) THEN i + 2 ELSE i + 1

\* the atom that starts at i is followed by *
Starred(src, i) == AfterAtom(src, i) <= Len(src) /\ src[AfterAtom(src, i)] = "*"

\* the atom that starts at i is followed by {1}
Once(src, i) ==
    /\ AfterAtom(src, i) + 2 <= Len(src)
    /\ SubSeq(src, AfterAtom(src, i), AfterAtom(src, i) + 2) = << "{", "1", "}" >>

RECURSIVE RegexAtoms(_, _)
\* new RegExp(source): the atoms of the source from the position i on: \c is
\* the character c, . is any character, * repeats the atom before it and
\* {1} takes it once
RegexAtoms(src, i) ==
    IF i > Len(src) THEN <<>>
    ELSE << [any |-> src[i] = ".",
              c |-> IF AfterAtom(src, i) = i + 2 THEN src[i + 1] ELSE src[i],
              star |-> Starred(src, i)] >>
         \o RegexAtoms(src, AfterAtom(src, i)
                        + (IF Starred(src, i) THEN 1 ELSE IF Once(src, i) THEN 3 ELSE 0))

RECURSIVE RegexTest(_, _, _, _)
\* the atoms from k on match the string from j on to its end
RegexTest(atoms, k, str, j) ==
    IF k > Len(atoms) THEN j > Len(str)
    ELSE IF atoms[k].star
    THEN \/ RegexTest(atoms, k + 1, str, j)
         \/ /\ j <= Len(str)
            /\ atoms[k].any \/ atoms[k].c = str[j]
            /\ RegexTest(atoms, k, str, j + 1)
    ELSE /\ j <= Len(str)
         /\ atoms[k].any \/ atoms[k].c = str[j]
         /\ RegexTest(atoms, k + 1, str, j + 1)

\* matchGitignorePattern(pattern, str)
matchGitignorePattern(pattern, str) == RegexTest(RegexAtoms(regexSource(pattern), 1), 1, str, 1)

IdleInit ==
    /\ table = Idle
    /\ call = Idle
    /\ result = Idle

\* a name over the characters a, b and . is tested against a pattern over a,
\* ., ? and *
MatchGitignorePattern ==
    /\ call = Idle
    /\ \E pattern \in SeqsUpTo({"a", ".", "?", "*"}, MaxPatternLen),
          str \in SeqsUpTo({"a", "b", "."}, MaxNameLen) :
         /\ call' = [op |-> "matchGitignorePattern", pattern |-> pattern, str |-> str]
         /\ result' = [status |-> "ok", value |-> matchGitignorePattern(pattern, str)]
    /\ UNCHANGED table

GlobNext ==
    \/ MatchGitignorePattern
    \/ Return

GlobSpec == IdleInit /\ [][GlobNext]_vars

RECURSIVE GlobMatches(_, _)
\* the name matches the pattern as a whole: * is any run of characters, ?
\* is one character, every other character is itself
GlobMatches(pattern, name) ==
    IF pattern = <<>> THEN name = <<>>
    ELSE IF Head(pattern) = "*"
    THEN \/ GlobMatches(Tail(pattern), name)
         \/ name # <<>> /\ GlobMatches(pattern, Tail(name))
    ELSE /\ name # <<>>
         /\ Head(pattern) = "?" \/ Head(pattern) = Head(name)
         /\ GlobMatches(Tail(pattern), Tail(name))

\* C20: matchGitignorePattern(pattern, name) is true exactly when the name
\* matches the pattern as a whole, with * for any run of characters, ? for
\* one character and every other character for itself
C20_GlobMatching ==
    call.op = "matchGitignorePattern" =>
      (result.value <=> GlobMatches(call.pattern, call.str))


\* the part of C20 about * and the literal characters: a pattern without ?
\* matches as the glob does
C20_WithoutQuestionMark ==
    (call.op = "matchGitignorePattern" /\ \A n \in 1..Len(call.pattern) : call.pattern[n] # "?") =>
      (result.value <=> GlobMatches(call.pattern, call.str))

\* what ? does: it stands for one "." of the name and for nothing else
C20_QuestionMarkIsADot ==
    call.op = "matchGitignorePattern" =>
      (result.value <=>
         GlobMatches([n \in 1..Len(call.pattern) |->
                        IF call.pattern[n] = "?" THEN "." ELSE call.pattern[n]], call.str))


(***************************************************************************)
(* generateDBSchema (src/src/index.ts): the schemas and tables it emits    *)
(* for the specifications of the caller.  A name is the sequence of its    *)
(* characters; an array carries the reference that === compares.           *)
(***************************************************************************)
\* number of table specifications in the first schema specification
MaxSpecs == 2

\* an array with its identity
ArrayRef(ref, a) == [t |-> "array", ref |-> ref, a |-> a]

\* the database: pg_namespace, and pg_tables with information_schema.columns
CatalogSchemas == << "public", "app" >>
CatalogTables(s) ==
    IF s = "public"
    THEN << [name |-> << "a", "b" >>, columns |-> << "id", "name" >>],
            [name |-> << "a", "c" >>, columns |-> << "id" >>] >>
    ELSE << [name |-> << "a", "b" >>, columns |-> << "id" >>] >>

\* pg_constraint: the foreign keys of the table t of the schema s
CatalogForeignKeys(s, t) ==
    IF s = "public" /\ t = << "a", "b" >>
    THEN << [referencing_column |-> "id", referenced_schema |-> "public",
             referenced_table |-> << "a", "c" >>],
            [referencing_column |-> "name", referenced_schema |-> "public",
             referenced_table |-> << "a", "c" >>] >>
    ELSE IF s = "app"
    THEN << [referencing_column |-> "id", referenced_schema |-> "public",
             referenced_table |-> << "a", "b" >>] >>
    ELSE <<>>

\* the table specifications a caller writes: a name or a pattern, and cols
TableFilterShapes ==
    [name : { << "a", "b" >>, << "a", "c" >>, << "a", "*" >> },
     cols : { Undefined, Arr(<< "id" >>), Arr(<< "name" >>) }]

\* { name, tables }: the i-th schema specification of the options; the cols
\* and the operations of each table specification are arrays of their own
SchemaOptions(i, name, shapes) ==
    [name |-> name,
     tables |-> [j \in 1..Len(shapes) |->
                   [name |-> shapes[j].name,
                    operations |-> ArrayRef(<< i, j >>, << "READ" >>),
                    cols |-> IF shapes[j].cols = Undefined THEN Undefined
                             ELSE ArrayRef(<< i, j >>, shapes[j].cols.a)]]]

RECURSIVE removeDuplicatesFrom(_, _)
\* the values from the index i on whose index is that of the first value t
\* with t[k] === value[k] for every key k of the first value; a key that a
\* value does not have is undefined there
removeDuplicatesFrom(values, i) ==
    IF i > Len(values) THEN <<>>
    ELSE (IF \E j \in 1..(i - 1) : \A k \in DOMAIN values[1] :
                /\ (k \in DOMAIN values[j]) = (k \in DOMAIN values[i])
                /\ k \in DOMAIN values[j] => values[j][k] = values[i][k]
          THEN <<>> ELSE << values[i] >>)
         \o removeDuplicatesFrom(values, i + 1)

\* removeDuplicates(values)
removeDuplicates(values) == removeDuplicatesFrom(values, 1)

\* mergeObjects(obj1, obj2) for schema specifications, whose tables are arrays
mergeObjects(obj1, obj2) ==
    [key \in DOMAIN obj2 |->
       IF key = "tables" THEN removeDuplicates(obj1[key] \o obj2[key]) ELSE obj2[key]]

RECURSIVE mergeObjectsWithSameName(_, _, _)
\* mergeObjectsWithSameName(objects, 'name'): merged holds the values of
\* mergedObjects in the order of insertion
mergeObjectsWithSameName(objects, i, merged) ==
    IF i > Len(objects) THEN merged
    ELSE mergeObjectsWithSameName(objects, i + 1,
           IF \E n \in 1..Len(merged) : merged[n].name = objects[i].name
           THEN [n \in 1..Len(merged) |->
                   IF merged[n].name = objects[i].name
                   THEN mergeObjects(merged[n], objects[i]) ELSE merged[n]]
           ELSE Append(merged, objects[i]))

\* getSchemaFilter(name, schemas): the tables of the first specification of
\* the name
getSchemaFilter(name, schemas) ==
    schemas[CHOOSE n \in 1..Len(schemas) :
              /\ schemas[n].name = name
              /\ \A m \in 1..(n - 1) : schemas[m].name # name].tables

\* getTablesFilter(schemaName, tableName, schemas)
getTablesFilter(schemaName, tableName, schemas) ==
    SelectSeq(getSchemaFilter(schemaName, schemas), LAMBDA t : t.name = tableName)

\* makeRegexSQLTableOrViewName('tablename', name): the names of the model
\* hold no character that the first regexp_replace escapes
makeRegexSQLTableOrViewName(tablename, name) ==
    RegexTest(RegexAtoms(ReplaceAll(ReplaceAll(name, {"*"}, << ".", "*" >>),
                                    {"?"}, << ".", "{", "1", "}" >>), 1),
              1, tablename, 1)

\* the rows of pg_tables under makeTablesWhere(schemaName, schemas); with no
\* table specification the statement is not valid and there are no rows
tableRows(schemaName, tables) ==
    SelectSeq(CatalogTables(schemaName),
              LAMBDA t : \E n \in 1..Len(tables) :
                            makeRegexSQLTableOrViewName(t.name, tables[n].name))

\* the Table of a row for one of its specifications
emitTable(t, tableFilter) ==
    [name |-> t.name,
     type |-> "table",
     operations |-> tableFilter.operations.a,
     columns |-> t.columns,
     cols |-> SelectSeq(t.columns,
                        LAMBDA c : IF tableFilter.cols # Undefined /\ Len(tableFilter.cols.a) > 0
                                   THEN c \in Range(tableFilter.cols.a) ELSE TRUE)]

\* the tables of the rows of a schema: tablesFilter.map(...) gives one for
\* each specification named as the row
tablesOfRows(s, rows, schemas) ==
    Flat([r \in 1..Len(rows) |->
            [n \in 1..Len(getTablesFilter(s, rows[r].name, schemas)) |->
               emitTable(rows[r], getTablesFilter(s, rows[r].name, schemas)[n])]])

\* the schemas of pg_namespace under makeSchemasWhere(schemas)
schemaRows(schemas) ==
    SelectSeq(CatalogSchemas, LAMBDA s : \E n \in 1..Len(schemas) : schemas[n].name = s)

\* genSchema(schemas): the schemas of pg_namespace named by a specification,
\* each with the tables of its rows
genSchema(schemas) ==
    [i \in 1..Len(schemaRows(schemas)) |->
       [name |-> schemaRows(schemas)[i],
        tables |->
          ArrayRef(<< "genSchema", i >>,
            tablesOfRows(schemaRows(schemas)[i],
                         tableRows(schemaRows(schemas)[i],
                                   getSchemaFilter(schemaRows(schemas)[i], schemas)),
                         schemas))]]

\* the schema of the specifications of the caller
firstPass(schemas) ==
    removeDuplicates(genSchema(mergeObjectsWithSameName(schemas, 1, <<>>)))

\* the foreign keys of the columns of a table, in the order of the columns
columnReferences(s, t) ==
    Flat([c \in 1..Len(t.columns) |->
            IF \E fk \in Range(CatalogForeignKeys(s, t.name)) : fk.referencing_column = t.columns[c]
            THEN << CHOOSE fk \in Range(CatalogForeignKeys(s, t.name)) :
                      fk.referencing_column = t.columns[c] >>
            ELSE <<>>])

\* schema.forEach(s => s.tables.forEach(t => t.columns.forEach(...))): the
\* foreign keys of the schema in the order they are visited
schemaReferences(schema) ==
    Flat([i \in 1..Len(schema) |->
            Flat([n \in 1..Len(schema[i].tables.a) |->
                    columnReferences(schema[i].name, schema[i].tables.a[n])])])

\* schemas with { name: referencedTable, operations: [] } added for the
\* k-th reference
addReference(schemas, data, k) ==
    IF \E n \in 1..Len(schemas) : schemas[n].name = data.referenced_schema
    THEN SelectSeq(schemas, LAMBDA sc : sc.name # data.referenced_schema)
         \o << [name |-> data.referenced_schema,
                 tables |-> Append(getSchemaFilter(data.referenced_schema, schemas),
                                   [name |-> data.referenced_table,
                                    operations |-> ArrayRef(<< "foreign", k >>, <<>>),
                                    cols |-> Undefined])] >>
    ELSE Append(schemas,
                [name |-> data.referenced_schema,
                 tables |-> << [name |-> data.referenced_table,
                                operations |-> ArrayRef(<< "foreign", k >>, <<>>),
                                cols |-> Undefined] >>])

RECURSIVE foreignSchemas(_, _, _, _)
\* the specifications of the tables that the schema references and does not
\* hold, collected from the k-th reference on
foreignSchemas(schema, refs, k, schemas) ==
    IF k > Len(refs) THEN schemas
    ELSE foreignSchemas(schema, refs, k + 1,
           IF \E i \in 1..Len(schema) :
                /\ schema[i].name = refs[k].referenced_schema
                /\ \A m \in 1..(i - 1) : schema[m].name # refs[k].referenced_schema
                /\ \E tb \in Range(schema[i].tables.a) : tb.name = refs[k].referenced_table
           THEN schemas
           ELSE addReference(schemas, refs[k], k))

RECURSIVE unifySchemas(_, _, _)
\* [...schema, ...dbSchemaLinked].forEach(...): the first schema of a name
\* takes the tables of the later ones into its own array
unifySchemas(all, i, unifiedSchemas) ==
    IF i > Len(all) THEN unifiedSchemas
    ELSE unifySchemas(all, i + 1,
           IF \E n \in 1..Len(unifiedSchemas) : unifiedSchemas[n].name = all[i].name
           THEN [n \in 1..Len(unifiedSchemas) |->
                   IF unifiedSchemas[n].name = all[i].name
                   THEN [unifiedSchemas[n] EXCEPT !.tables.a = @ \o all[i].tables.a]
                   ELSE unifiedSchemas[n]]
           ELSE Append(unifiedSchemas, all[i]))

\* the schema with the tables of the specifications schemas, if any
secondPass(schema, schemas) ==
    IF Len(schemas) > 0
    THEN removeDuplicates(unifySchemas(schema \o genSchema(schemas), 1, <<>>))
    ELSE schema

\* generateDBSchema(credentials, { schemas, generateForeignTables })
generateDBSchema(schemas, generateForeignTables) ==
    IF generateForeignTables
    THEN secondPass(firstPass(schemas),
                    foreignSchemas(firstPass(schemas), schemaReferences(firstPass(schemas)),
                                   1, <<>>))
    ELSE firstPass(schemas)

\* the arguments: one schema specification, or two
SchemasArguments ==
    { << SchemaOptions(1, name, shapes) >> :
        name \in Range(CatalogSchemas), shapes \in SeqsUpTo(TableFilterShapes, MaxSpecs) }
    \cup
    { << SchemaOptions(1, name, shapes), SchemaOptions(2, other, more) >> :
        name \in Range(CatalogSchemas), shapes \in SeqsUpTo(TableFilterShapes, MaxSpecs),
        other \in Range(CatalogSchemas), more \in SeqsUpTo(TableFilterShapes, 1) }

\* the schema is generated for the specifications of the caller
GenerateDBSchema ==
    /\ call = Idle
    /\ \E schemas \in SchemasArguments, generateForeignTables \in BOOLEAN :
         /\ call' = [op |-> "generateDBSchema", schemas |-> schemas,
                     generateForeignTables |-> generateForeignTables]
         /\ result' = [status |-> "ok",
                       schema |-> generateDBSchema(schemas, generateForeignTables)]
    /\ UNCHANGED table

SchemaNext ==
    \/ GenerateDBSchema
    \/ Return

SchemaSpec == IdleInit /\ [][SchemaNext]_vars

\* C19: generateDBSchema emits at most one Table for a table name of a
\* schema, whatever the table specifications of the caller
C19_OneTablePerName ==
    call.op = "generateDBSchema" =>
      \A i \in 1..Len(result.schema) :
        \A m, n \in 1..Len(result.schema[i].tables.a) :
          result.schema[i].tables.a[m].name = result.schema[i].tables.a[n].name => m = n

\* of C19: the schema specifications of one name are merged into one, so a
\* schema is emitted once
C19_OneSchemaPerName ==
    call.op = "generateDBSchema" =>
      \A i, j \in 1..Len(result.schema) :
        result.schema[i].name = result.schema[j].name => i = j


\* the table specifications the caller wrote for the schema s
SpecsOf(schemas, s) ==
    Flat([n \in 1..Len(schemas) |-> IF schemas[n].name = s THEN schemas[n].tables ELSE <<>>])

\* the Tables emitted for the schema s
EmittedTables(schema, s) ==
    Flat([i \in 1..Len(schema) |-> IF schema[i].name = s THEN schema[i].tables.a ELSE <<>>])

\* C21: a catalog table of a requested schema whose name matches a table
\* specification of the caller, exactly or through a pattern, has a Table in
\* the output of generateDBSchema
C21_MatchedTablesEmitted ==
    call.op = "generateDBSchema" =>
      \A s \in Range(CatalogSchemas) : \A t \in Range(CatalogTables(s)) :
        (\E f \in Range(SpecsOf(call.schemas, s)) : GlobMatches(f.name, t.name))
          => \E e \in Range(EmittedTables(result.schema, s)) : e.name = t.name

\* of C21: a table that a specification names exactly has a Table
C21_NamedTablesEmitted ==
    call.op = "generateDBSchema" =>
      \A s \in Range(CatalogSchemas) : \A t \in Range(CatalogTables(s)) :
        (\E f \in Range(SpecsOf(call.schemas, s)) : f.name = t.name)
          => \E e \in Range(EmittedTables(result.schema, s)) : e.name = t.name

\* of C21: without generateForeignTables, no Table is emitted for a table
\* that no specification matches
C21_OnlyMatchedTablesEmitted ==
    (call.op = "generateDBSchema" /\ ~call.generateForeignTables) =>
      \A s \in Range(CatalogSchemas) : \A e \in Range(EmittedTables(result.schema, s)) :
        \E f \in Range(SpecsOf(call.schemas, s)) : GlobMatches(f.name, e.name)


\* the call compiled a filter into a WHERE clause
CompiledWhere ==
    call.op \in {"makeQuery", "makeMutationUpdate", "makeMutationDelete"}

\* C22: for every filter, also one with an empty list or with every column
\* entry dropped, a builder does not throw on account of the filter and the
\* text after WHERE is a boolean expression; makeQuery without lists and
\* without defaultWhere emits WHERE TRUE = TRUE
C22_DegenerateFilterCompiles ==
    CompiledWhere =>
      /\ result.status = "ok" \/ MissingVariableError
      /\ result.status = "ok" => Selected(result.whereQuery).ok
      /\ (/\ call.op = "makeQuery"
          /\ result.status = "ok"
          /\ NoLists(call.where)
          /\ call.before.defaultWhere = <<>>)
           => result.whereQuery = << Kw("WHERE"), Kw("TRUE = TRUE") >>

\* of C22: no builder throws on account of its filter
C22_FilterNeverThrows ==
    CompiledWhere => (result.status = "ok" \/ MissingVariableError)

\* of C22: makeQuery and the mutations called without lists emit a boolean
\* expression; for makeQuery without defaultWhere it is TRUE = TRUE
C22_NoListsCompiles ==
    (CompiledWhere /\ result.status = "ok" /\ NoLists(call.where)) =>
      /\ Selected(result.whereQuery).ok
      /\ (call.op = "makeQuery" /\ call.before.defaultWhere = <<>>)
           => result.whereQuery = << Kw("WHERE"), Kw("TRUE = TRUE") >>


\* the only object of the only list of a filter, when there is one
OnlyObject(where) ==
    IF where.AND.has /\ ~where.OR.has /\ Len(where.AND.list) = 1 THEN << where.AND.list[1] >>
    ELSE IF where.OR.has /\ ~where.AND.has /\ Len(where.OR.list) = 1 THEN << where.OR.list[1] >>
    ELSE <<>>

\* the filter is one object that holds nothing but one nested list of two
\* or more objects
OneNestedList(where) ==
    /\ OnlyObject(where) # <<>>
    /\ OnlyObject(where)[1].leaves = <<>>
    /\ Len(OnlyObject(where)[1].subs) = 1
    /\ Len(OnlyObject(where)[1].subs[1].list) >= 2

\* the AND and OR keywords of a text, in text order
Connectives(text) == SelectSeq(text, LAMBDA tok : tok \in {Kw("AND"), Kw("OR")})

\* C23: the elements of a nested list are joined with the keyword of that
\* list: where the filter is one object holding one nested list, every
\* connective of the predicate is the keyword of the nested list
C23_NestedListJoinedWithOwnKeyword ==
    (UsedWhereSQL /\ call.before.defaultWhere = <<>> /\ OneNestedList(call.where)) =>
      \A i \in 1..Len(Connectives(result.whereQuery)) :
        Connectives(result.whereQuery)[i] = Kw(OnlyObject(call.where)[1].subs[1].key)

\* of C23: a list nested in a node of its own kind is joined with its keyword
C23_SameKindJoined ==
    (/\ UsedWhereSQL
     /\ call.before.defaultWhere = <<>>
     /\ OneNestedList(call.where)
     /\ call.where[OnlyObject(call.where)[1].subs[1].key].has) =>
      \A i \in 1..Len(Connectives(result.whereQuery)) :
        Connectives(result.whereQuery)[i] = Kw(OnlyObject(call.where)[1].subs[1].key)


\* no object of the filter holds a nested list: the column entries are
\* compiled in the order of the text
FlatWhere(where) ==
    /\ \A j \in 1..Len(where.AND.list) : where.AND.list[j].subs = <<>>
    /\ \A j \in 1..Len(where.OR.list) : where.OR.list[j].subs = <<>>

RECURSIVE CountPlaceholders(_, _)
\* the number of placeholders of the conditions among the first n tokens of
\* a text
CountPlaceholders(text, n) ==
    IF n = 0 THEN 0
    ELSE CountPlaceholders(text, n - 1) + (IF text[n].k = "cond" THEN Len(text[n].ph) ELSE 0)

\* the length of the parameter list when the filter of the call is compiled
ValuesBeforeWhere ==
    IF call.op = "makeQuery" THEN Len(initialValues(call.before, call.variables)) ELSE 0

\* the length of the parameter list when the condition at the position i of
\* the WHERE clause is compiled: a condition appends one value for each of
\* its placeholders
ValuesBefore(i) == ValuesBeforeWhere + CountPlaceholders(Tail(result.whereQuery), i - 2)

\* the values of the ARRAY condition on a column
ArrayValues(col) ==
    (CHOOSE leaf \in LeafChoices : leaf.col = col /\ leaf.ARRAY # Undefined).ARRAY.value.a

\* the ARRAY conditions of the WHERE clause of the call
ArrayConditions ==
    { i \in 1..Len(result.whereQuery) :
        result.whereQuery[i].k = "cond" /\ result.whereQuery[i].form = "list" }

\* C24: an ARRAY condition of n values compiled when the parameter list
\* holds m entries appends its values at the positions m+1..m+n and emits
\* the placeholders $(m+1)..$(m+n) in the order of the values, each cast to
\* the type of the column
C24_ArrayPlaceholders ==
    (UsedWhereSQL /\ FlatWhere(call.where)) =>
      \A i \in ArrayConditions :
        /\ result.whereQuery[i].ph
             = [j \in 1..Len(ArrayValues(result.whereQuery[i].s)) |-> ValuesBefore(i) + j]
        /\ \A j \in 1..Len(ArrayValues(result.whereQuery[i].s)) :
             result.values[ValuesBefore(i) + j] = String(ArrayValues(result.whereQuery[i].s)[j])
        /\ result.whereQuery[i].cast
             = call.before.columns[FindColumn(call.before, result.whereQuery[i].s)].type

\* of C24: the values are appended at the positions m+1..m+n, in order, and
\* the cast is the type of the column
C24_ArrayValuesAppended ==
    (UsedWhereSQL /\ FlatWhere(call.where)) =>
      \A i \in ArrayConditions :
        /\ Len(result.whereQuery[i].ph) = Len(ArrayValues(result.whereQuery[i].s))
        /\ \A j \in 1..Len(ArrayValues(result.whereQuery[i].s)) :
             result.values[ValuesBefore(i) + j] = String(ArrayValues(result.whereQuery[i].s)[j])
        /\ result.whereQuery[i].cast
             = call.before.columns[FindColumn(call.before, result.whereQuery[i].s)].type

\* of C24: what the placeholders are: $1..$n, whatever the parameter list holds
C24_ArrayPlaceholdersFromOne ==
    UsedWhereSQL =>
      \A i \in ArrayConditions :
        result.whereQuery[i].ph = [j \in 1..Len(ArrayValues(result.whereQuery[i].s)) |-> j]


(***************************************************************************)
(* The conditions of one object: SINGLE conditions with and without a      *)
(* value, compiled by makeMutationDelete.                                  *)
(***************************************************************************)
\* number of column entries of the object
MaxLeaves == 2

\* the column entries: nullary operators with and without a value, other
\* operators with and without a value
ConditionLeaves ==
    { Leaf("email", Condition("IS_NULL", Undefined), Undefined),
      Leaf("email", Condition("IS_NULL", Str("x")), Undefined),
      Leaf("id", Condition("IS_NOT_NULL", Num(1)), Undefined),
      Leaf("id", Condition("GREATER_THAN", Num(5)), Undefined),
      Leaf("name", Condition("EQUAL", Str("Ana")), Undefined),
      Leaf("name", Condition("LIKE", Undefined), Undefined) }

\* the filters of one list of one object of column entries under distinct keys
ConditionWheres ==
    UNION { { Where(Present(<< Node(ls, <<>>) >>), Absent),
              Where(Absent, Present(<< Node(ls, <<>>) >>)) } :
            ls \in { s \in SeqsUpTo(ConditionLeaves, MaxLeaves) :
                       s # <<>> /\ \A i, j \in 1..Len(s) : i # j => s[i].col # s[j].col } }

\* makeMutationDelete is called with a filter of SINGLE conditions
DeleteWhere ==
    /\ call = Idle
    /\ \E where \in ConditionWheres :
         /\ call' = [op |-> "makeMutationDelete", where |-> where, before |-> table]
         /\ result' = Returned(makeMutationDelete(SchemaName, table, where))
         /\ table' = makeMutationDelete(SchemaName, table, where).table

ConditionNext ==
    \/ DeleteWhere
    \/ Return

ConditionSpec == Init /\ [][ConditionNext]_vars

\* the column entries of the only object of the filter that are compiled
KeptLeaves ==
    SelectSeq(OnlyObject(call.where)[1].leaves, LAMBDA leaf : KeptLeaf(call.before, leaf))

\* the conditions of the WHERE clause of the call, in text order
Conditions == SelectSeq(result.whereQuery, LAMBDA tok : tok.k = "cond")

\* a filter of one object of column entries was compiled
CompiledConditions ==
    /\ UsedWhereSQL
    /\ OnlyObject(call.where) # <<>>
    /\ OnlyObject(call.where)[1].subs = <<>>
    /\ \A i \in 1..Len(OnlyObject(call.where)[1].leaves) :
         OnlyObject(call.where)[1].leaves[i].SINGLE # Undefined

\* the kept column entries whose operator takes a value
ValueLeaves ==
    SelectSeq(KeptLeaves, LAMBDA leaf : leaf.SINGLE.condition \notin nullableOperators)

\* C25: a SINGLE condition with IS_NULL or IS_NOT_NULL appends no value and
\* emits no placeholder, with or without a value; every other SINGLE
\* condition appends one value and emits one placeholder
C25_NullaryOperatorsTakeNoValue ==
    CompiledConditions =>
      /\ Len(Conditions) = Len(KeptLeaves)
      /\ \A j \in 1..Len(Conditions) :
           Len(Conditions[j].ph)
             = IF KeptLeaves[j].SINGLE.condition \in nullableOperators THEN 0 ELSE 1
      /\ Len(result.values) = Len(ValueLeaves)

\* of C25: a nullary operator without a value appends and emits nothing and
\* every other operator appends one value and emits one placeholder
C25_WithoutStrayValue ==
    (/\ CompiledConditions
     /\ \A j \in 1..Len(KeptLeaves) :
          KeptLeaves[j].SINGLE.condition \in nullableOperators
            => KeptLeaves[j].SINGLE.value = Undefined) =>
      /\ Len(Conditions) = Len(KeptLeaves)
      /\ \A j \in 1..Len(Conditions) :
           Len(Conditions[j].ph)
             = IF KeptLeaves[j].SINGLE.condition \in nullableOperators THEN 0 ELSE 1
      /\ Len(result.values) = Len(ValueLeaves)


\* the table referenced by the foreign key j has the name of a column of
\* the table that is no foreign key
ReferencesPlainColumnName(j) ==
    \E c \in Range(table.columns) :
      /\ ~c.foreignKey.is
      /\ c.name = ForeignKeys(table)[j].foreignKey.data.referencedTable

\* what the call stores for the foreign key j of the row i
StoredLink(i, j) == foreignResult(ForeignKeys(table)[j], call.r[i], i, j).result

\* C26: when the referenced table has the name of a plain column of the
\* table, the linked object of a row is stored under the name of the
\* referenced table and not under the name of the foreign-key column
C26_CollisionKeyedByReferencedTable ==
    Linked =>
      \A p \in Lookups(ForeignKeys(table), call.r) :
        ReferencesPlainColumnName(p.key) =>
          /\ Get(result.rows[p.row], ForeignKeys(table)[p.key].foreignKey.data.referencedTable)
               = StoredLink(p.row, p.key)
          /\ Get(result.rows[p.row], ForeignKeys(table)[p.key].name) # StoredLink(p.row, p.key)

\* of C26: what the code does: on a collision the linked object is stored
\* under the name of the foreign-key column and the plain column keeps its
\* own value
C26_CollisionKeyedByColumn ==
    Linked =>
      \A p \in Lookups(ForeignKeys(table), call.r) :
        ReferencesPlainColumnName(p.key) =>
          /\ Get(result.rows[p.row], ForeignKeys(table)[p.key].name) = StoredLink(p.row, p.key)
          /\ Get(result.rows[p.row], ForeignKeys(table)[p.key].foreignKey.data.referencedTable)
               # StoredLink(p.row, p.key)


\* C29: the foreign-key columns of a row have keys of their own in the
\* linked row: what is stored for one of them is not overwritten by what is
\* stored for another, also when two of them reference the same table
C29_LinkedKeysDistinct ==
    Linked =>
      \A p \in Lookups(ForeignKeys(table), call.r) :
        \E e \in Range(result.rows[p.row].kv) : e[2] = StoredLink(p.row, p.key)

\* of C29: foreign-key columns that reference different tables, or one
\* alone, keep what is stored for them
C29_OneKeyPerReferencedTable ==
    Linked =>
      \A p \in Lookups(ForeignKeys(table), call.r) :
        (\A j \in 1..Len(ForeignKeys(table)) :
           j # p.key => ForeignKeys(table)[j].foreignKey.data.referencedTable
                          # ForeignKeys(table)[p.key].foreignKey.data.referencedTable)
          => \E e \in Range(result.rows[p.row].kv) : e[2] = StoredLink(p.row, p.key)


\* the tables of a schema have names of their own
DistinctTables(schema) ==
    \A i \in 1..Len(schema) : \A m, n \in 1..Len(schema[i].tables.a) :
      schema[i].tables.a[m].name = schema[i].tables.a[n].name => m = n

\* the call asked for the referenced tables and its first pass emitted no
\* table twice
WithForeignTables ==
    /\ call.op = "generateDBSchema"
    /\ call.generateForeignTables
    /\ DistinctTables(firstPass(call.schemas))

\* C27: with generateForeignTables, the output of generateDBSchema holds no
\* two Schemas of one name and no two Tables of one name in a Schema, also
\* when several foreign keys reference the same table that was not included,
\* and every Table the second pass added has no operations
C27_ForeignTablesOnce ==
    WithForeignTables =>
      /\ \A i, j \in 1..Len(result.schema) :
           result.schema[i].name = result.schema[j].name => i = j
      /\ DistinctTables(result.schema)
      /\ \A s \in Range(CatalogSchemas) : \A e \in Range(EmittedTables(result.schema, s)) :
           e \notin Range(EmittedTables(firstPass(call.schemas), s)) => e.operations = <<>>

\* of C27: the Schemas have names of their own and the added Tables have no
\* operations
C27_SchemasOnceAndNoOperations ==
    WithForeignTables =>
      /\ \A i, j \in 1..Len(result.schema) :
           result.schema[i].name = result.schema[j].name => i = j
      /\ \A s \in Range(CatalogSchemas) : \A e \in Range(EmittedTables(result.schema, s)) :
           e \notin Range(EmittedTables(firstPass(call.schemas), s)) => e.operations = <<>>

\* of C27: a table that one foreign key alone references is added once
C27_SingleReferenceOnce ==
    (/\ WithForeignTables
     /\ \A s \in Range(CatalogSchemas) : \A e \in Range(EmittedTables(firstPass(call.schemas), s)) :
          Len(columnReferences(s, e)) <= 1) =>
      DistinctTables(result.schema)


(***************************************************************************)
(* removeDuplicates on a list of strings, as mergeObjects calls it for the *)
(* cols of two specifications.  The keys of a string are its indices.      *)
(***************************************************************************)
\* number of strings in the list
MaxListLen == 3

\* removeDuplicates is called with the column names id, idx, n, no and e
RemoveDuplicates ==
    /\ call = Idle
    /\ \E values \in SeqsUpTo({ << "i", "d" >>, << "i", "d", "x" >>, << "n" >>, << "n", "o" >>,
                                << "e" >> }, MaxListLen) :
         /\ call' = [op |-> "removeDuplicates", values |-> values]
         /\ result' = [status |-> "ok", value |-> removeDuplicates(values)]
    /\ UNCHANGED table

UnionNext ==
    \/ RemoveDuplicates
    \/ Return

UnionSpec == IdleInit /\ [][UnionNext]_vars

\* the elements of a list at their first occurrence, in order
FirstOccurrences(values) ==
    LET first == { i \in 1..Len(values) : \A j \in 1..(i - 1) : values[j] # values[i] }
        nth(n) == CHOOSE i \in first : Cardinality({ j \in first : j < i }) = n - 1
    IN [n \in 1..Cardinality(first) |-> values[nth(n)]]

\* C28: removeDuplicates of a list of strings keeps every distinct element
\* once, in the order of the first occurrences: the result has the elements
\* of the list and none twice, and two different strings are not duplicates
\* of each other
C28_UnionKeepsDistinctStrings ==
    call.op = "removeDuplicates" =>
      /\ Range(result.value) = Range(call.values)
      /\ \A m, n \in 1..Len(result.value) : result.value[m] = result.value[n] => m = n
      /\ result.value = FirstOccurrences(call.values)

\* of C28: no element is twice in the result, the result holds elements of
\* the list only, in the order of the list, and the first element is kept
C28_NoElementTwice ==
    call.op = "removeDuplicates" =>
      /\ \A m, n \in 1..Len(result.value) : result.value[m] = result.value[n] => m = n
      /\ Range(result.value) \subseteq Range(call.values)
      /\ call.values # <<>> => result.value[1] = call.values[1]

\* of C28: strings that differ from each other within the length of the
\* first string of the list are kept as the claim says
C28_DistinctWithinFirstLength ==
    (/\ call.op = "removeDuplicates"
     /\ \A i, j \in 1..Len(call.values) :
          call.values[i] # call.values[j]
            => \E k \in 1..Len(call.values[1]) :
                 \/ (k <= Len(call.values[i])) # (k <= Len(call.values[j]))
                 \/ /\ k <= Len(call.values[i])
                    /\ k <= Len(call.values[j])
                    /\ call.values[i][k] # call.values[j][k]) =>
      result.value = FirstOccurrences(call.values)


(***************************************************************************)
(* execQuery (src/unnamed/part_003): the calls follow one another; call    *)
(* holds the position of the call in progress, its pool and the number of  *)
(* pools that were created and not ended.                                  *)
(***************************************************************************)
\* number of calls of execQuery
MaxCalls == 5

ExecInit ==
    /\ table = Idle
    /\ call = [op |-> "execQuery", pc |-> "returned", exception |-> FALSE, pool |-> "none",
               calls |-> 0, open |-> 0]
    /\ result = Idle

\* execQuery(credentials, query, values, exception) runs to its first await:
\* with complete credentials it creates a pool and sends the query, else it
\* returns null
ExecQuery ==
    /\ call.pc = "returned"
    /\ call.calls < MaxCalls
    /\ \E complete \in BOOLEAN, exception \in BOOLEAN :
         IF complete
         THEN /\ call' = [call EXCEPT !.pc = "query", !.exception = exception, !.pool = "open",
                                      !.calls = @ + 1, !.open = @ + 1]
              /\ result' = Idle
         ELSE /\ call' = [call EXCEPT !.exception = exception, !.pool = "none", !.calls = @ + 1]
              /\ result' = [status |-> "ok", value |-> "null"]
    /\ UNCHANGED table

\* pool.query resolves: the call goes on to await pool.end()
QuerySucceeds ==
    /\ call.pc = "query"
    /\ call' = [call EXCEPT !.pc = "end"]
    /\ UNCHANGED << table, result >>

\* pool.query rejects: the catch block throws when exception is set and
\* returns null otherwise
QueryFails ==
    /\ call.pc = "query"
    /\ call' = [call EXCEPT !.pc = "returned"]
    /\ result' = IF call.exception THEN [status |-> "throw", value |-> "Error"]
                 ELSE [status |-> "ok", value |-> "null"]
    /\ UNCHANGED table

\* pool.end() resolves and the call returns the rows
PoolEnds ==
    /\ call.pc = "end"
    /\ call' = [call EXCEPT !.pc = "returned", !.pool = "ended", !.open = @ - 1]
    /\ result' = [status |-> "ok", value |-> "rows"]
    /\ UNCHANGED table

ExecNext ==
    \/ ExecQuery
    \/ QuerySucceeds
    \/ QueryFails
    \/ PoolEnds

ExecSpec == ExecInit /\ [][ExecNext]_vars

\* the database answers every query and every pool.end(); the caller may
\* stop calling
ExecLive ==
    /\ ExecSpec
    /\ WF_vars(QuerySucceeds \/ QueryFails)
    /\ WF_vars(PoolEnds)

\* C30: every pool that execQuery creates is ended in the end, after a
\* query that succeeds, after one that fails into a null result and after
\* one whose failure is thrown again
C30_PoolsEventuallyEnded == (call.open > 0) ~> (call.open = 0)

\* of C30: a call that returns rows has ended its pool, and a call that
\* created no pool leaves none
C30_SuccessEndsPool ==
    (call.pc = "returned" /\ result # Idle /\ result.value = "rows") => call.pool = "ended"

\* of C30: a call whose query failed returns, or throws, with its pool open
C30_FailureLeavesPool ==
    (call.pc = "returned" /\ call.pool = "open") =>
      /\ call.open > 0
      /\ result = IF call.exception THEN [status |-> "throw", value |-> "Error"]
                  ELSE [status |-> "ok", value |-> "null"]

====
